---- MODULE Spec2Model ----
(***************************************************************************)
(* A model of the directory synchronisation engine of src/sync.py (the     *)
(* sequential engine, class Sync) and src/sync_parallel.py (the parallel   *)
(* engine, class ParallelSync).                                            *)
(*                                                                         *)
(* A relative path is a sequence of names; a file system is a function     *)
(* from the paths of Universe to entries.  A path as the code prints and   *)
(* matches it is a sequence of tokens: the names separated by "/".  File   *)
(* content is a sequence of lines, a line a sequence of tokens, so that    *)
(* the ignore file, the action log and ordinary files are all files.       *)
(* Modification times are integer ticks, Res ticks to the second.          *)
(*                                                                         *)
(* The last part is a model of the task queue of src/py/tasker.py: the     *)
(* task file, the lock file, the run file, and the invocations of          *)
(* `tasker.py <id> <mode>` for one tasker id that run at the same time.    *)
(***************************************************************************)
EXTENDS Integers, Sequences, FiniteSets, TLC

VARIABLES
    engine,      \* "seq": class Sync, "par": class ParallelSync
    mode,        \* self.mode: "date" | "file" | "reset"
    delete,      \* self.delete
    time_factor, \* self.time_factor
    max_workers, \* self.max_workers (parallel engine)
    faults,      \* the operations the environment makes raise: <<op, path>>
    src,         \* the tree under source_root_path
    dst,         \* the tree under sync_root_path
    now,         \* the clock, in ticks
    ignore_rules,      \* Source.ignore_rules
    cache_ignore,      \* Source.cache_ignore
    syncignore_mtime,  \* Source.syncignore_mtime
    logs,        \* Logger.logs, the buffer
    counter,     \* added, modified, failed, deleted_files, deleted_dirs
    sync_count,  \* run_sync's sync_count
    pc,          \* where run_sync is
    todo,        \* the walk's remaining entries / the executor's queue
    inflight,    \* tasks a worker of the pool has taken
    fallback,    \* tasks whose worker is in rm_git_objects_file, before its rmtree
    dir_tasks,   \* the parallel reaper's directory tasks
    interval,    \* self.interval
    src0,        \* the source tree when the pass started
    dst0,        \* the target tree when the pass started
    hist,        \* what the pass did: each entry's outcome and the guard's result
    last,        \* the counters of the pass before
    disk,        \* the one tree that holds both roots when one is inside the other
    source_root, \* self.source_root_path, as a path of disk
    sync_root,   \* self.sync_root_path, as a path of disk
    tasker_file, \* tasker.<id>.json: the keys and the tasks, in the file's order
    lock_file,   \* .tasker.<id>.lock exists
    run_file,    \* .tasker.<id>.run exists
    proc         \* the invocations of tasker.py: where each is, the task it holds

vars == <<engine, mode, delete, time_factor, max_workers, faults, src, dst, now,
          ignore_rules, cache_ignore, syncignore_mtime, logs, counter,
          sync_count, pc, todo, inflight, fallback, dir_tasks, interval, src0, dst0,
          hist, last, disk, source_root, sync_root,
          tasker_file, lock_file, run_file, proc>>

----------------------------------------------------------------------------
(* Names and paths *)

GoodObj == "0f0f0f0f0f0f0f0f0f0f0f0f0f0f0f0f0f0f0f"
BadObj == "pack-tmp"
LogName == "synclog.txt"
IgnoreName == ".syncignore"

HexDigits == {"0", "1", "2", "3", "4", "5", "6", "7", "8", "9",
              "a", "b", "c", "d", "e", "f"}

\* The spelling of a name, character by character.
CharsOf(n) ==
    CASE n = GoodObj -> [i \in 1..38 |-> IF i % 2 = 1 THEN "0" ELSE "f"]
      [] n = BadObj -> <<"p", "a", "c", "k", "-", "t", "m", "p">>
      [] n = "/" -> <<"/">>
      [] n = "*" -> <<"*">>
      [] n = "?" -> <<"?">>
      [] n = "#" -> <<"#">>
      [] n = "ab" -> <<"a", "b">>
      [] n = ".git" -> <<".", "g", "i", "t">>
      [] n = "keep" -> <<"k", "e", "e", "p">>
      [] n = "ign" -> <<"i", "g", "n">>
      [] n = "t" -> <<"t">>
      [] OTHER -> <<"n", "a", "m", "e", ".", "e", "x", "t">>

Root == <<>>

Parent(p) == SubSeq(p, 1, Len(p) - 1)

BaseName(p) == p[Len(p)]

IsPrefix(a, b) == Len(a) <= Len(b) /\ SubSeq(b, 1, Len(a)) = a

Leaves ==
    { <<"a.txt">>, <<"a.txt", "a.txt">>,
      <<"keep", "real.txt">>, <<"keep", "ign", "x.txt">>,
      <<".git", "objects", "ab", GoodObj>>, <<".git", "objects", "ab", BadObj>>,
      <<LogName>>, <<IgnoreName>>,
      <<"t", "a.txt">>, <<"t", "t", "a.txt">>, <<"t", "t", "t">>, <<"t", LogName>> }

Prefixes(p) == { SubSeq(p, 1, n) : n \in 0..Len(p) }

Universe == UNION { Prefixes(p) : p \in Leaves }

\* The proper ancestors of p below the root, nearest first.
RECURSIVE Ancestors(_)
Ancestors(p) ==
    IF Len(p) <= 1 THEN <<>> ELSE <<Parent(p)>> \o Ancestors(Parent(p))

\* os.path.join / relpath with "/" as the separator: the path as a string.
RECURSIVE PathStr(_)
PathStr(p) ==
    IF p = <<>> THEN <<>>
    ELSE IF Len(p) = 1 THEN <<p[1]>>
    ELSE <<p[1], "/">> \o PathStr(Tail(p))

\* A total order on paths, for listings: by the order of OrderedNames.
OrderedNames == <<IgnoreName, ".git", "a.txt", "keep", LogName, "objects", "ab",
                  GoodObj, BadObj, "ign", "real.txt", "x.txt", "t">>

NameRank(n) == CHOOSE i \in 1..Len(OrderedNames) : OrderedNames[i] = n

----------------------------------------------------------------------------
(* File systems *)

NoEntry == [kind |-> "none", content |-> <<>>, mtime |-> 0]

FileEntry(c, t) == [kind |-> "file", content |-> c, mtime |-> t]

DirEntry(t) == [kind |-> "dir", content |-> <<>>, mtime |-> t]

\* os.path.exists, os.path.isdir, os.path.isfile
Exists(fs, p) == p = Root \/ (p \in Universe /\ fs[p].kind # "none")

IsDir(fs, p) == p = Root \/ (p \in Universe /\ fs[p].kind = "dir")

IsFile(fs, p) == p # Root /\ p \in Universe /\ fs[p].kind = "file"

Children(fs, d) == { p \in Universe : p # Root /\ Parent(p) = d /\ fs[p].kind # "none" }

\* os.listdir in a fixed order.
RECURSIVE SortPaths(_)
SortPaths(S) ==
    IF S = {} THEN <<>>
    ELSE LET m == CHOOSE p \in S :
                      \A q \in S : NameRank(BaseName(p)) <= NameRank(BaseName(q))
         IN <<m>> \o SortPaths(S \ {m})

ListDir(fs, d) == SortPaths(Children(fs, d))

Range(s) == { s[i] : i \in 1..Len(s) }

\* Every entry has a directory above it.
WellFormed(fs) ==
    /\ fs[Root].kind = "dir"
    /\ \A p \in Universe \ {Root} : fs[p].kind # "none" => fs[Parent(p)].kind = "dir"

Touch(fs, d, t) == IF d = Root THEN fs ELSE [fs EXCEPT ![d].mtime = t]

\* os.makedirs(d): d and every missing directory above it.
RECURSIVE MakeDirs(_, _, _)
MakeDirs(fs, d, t) ==
    IF Exists(fs, d) THEN fs
    ELSE LET up == MakeDirs(fs, Parent(d), t)
         IN [Touch(up, Parent(d), t) EXCEPT ![d] = DirEntry(t)]

\* Writing file p with content c and modification time m at time t.
PutFile(fs, p, c, m, t) ==
    LET new == ~Exists(fs, p)
        fs1 == [fs EXCEPT ![p] = FileEntry(c, m)]
    IN IF new THEN Touch(fs1, Parent(p), t) ELSE fs1

\* os.remove / os.rmdir of p at time t.
RemoveEntry(fs, p, t) == Touch([fs EXCEPT ![p] = NoEntry], Parent(p), t)

\* shutil.rmtree(d) at time t.
RmTree(fs, d, t) ==
    LET cleared == [p \in Universe |->
                       IF p # Root /\ IsPrefix(d, p) THEN NoEntry ELSE fs[p]]
    IN IF d = Root THEN cleared ELSE Touch(cleared, Parent(d), t)

\* The regular files of a tree.
Files(fs) == { p \in Universe : fs[p].kind = "file" }

----------------------------------------------------------------------------
(* Source: the ignore rules *)

IgnorePath == <<IgnoreName>>

StartsWith(line, pre) == Len(line) >= Len(pre) /\ SubSeq(line, 1, Len(pre)) = pre

EndsWithSlash(line) == line # <<>> /\ line[Len(line)] = "/"

\* The rules one line of the ignore file expands to.
RulesOfLine(line) ==
    IF line = <<>> \/ Head(line) = "#" THEN <<>>
    ELSE IF StartsWith(line, <<"*", "*", "/">>)
    THEN <<Tail(line), SubSeq(line, 4, Len(line))>>
         \o (IF EndsWithSlash(line)
             THEN <<Tail(line) \o <<"*">>, SubSeq(line, 4, Len(line)) \o <<"*">>>>
             ELSE <<>>)
    ELSE IF EndsWithSlash(line) THEN <<line, line \o <<"*">>>>
    ELSE <<line>>

RECURSIVE RulesOfLines(_)
RulesOfLines(lines) ==
    IF lines = <<>> THEN <<>>
    ELSE RulesOfLine(Head(lines)) \o RulesOfLines(Tail(lines))

\* Source.get_ignore_rules: no file, or a read that raises, gives no rules.
GetIgnoreRules(fs, flt) ==
    IF ~IsFile(fs, IgnorePath) \/ <<"read", IgnorePath>> \in flt THEN <<>>
    ELSE RulesOfLines(fs[IgnorePath].content)

\* fnmatch.fnmatch on token sequences: "*" matches any run of tokens, "/"
\* included, "?" one token spelled with one character, anything else itself.
RECURSIVE FnMatch(_, _)
FnMatch(s, pat) ==
    IF pat = <<>> THEN s = <<>>
    ELSE IF Head(pat) = "*"
    THEN FnMatch(s, Tail(pat)) \/ (s # <<>> /\ FnMatch(Tail(s), pat))
    ELSE IF Head(pat) = "?"
    THEN s # <<>> /\ Len(CharsOf(Head(s))) = 1 /\ FnMatch(Tail(s), Tail(pat))
    ELSE s # <<>> /\ Head(s) = Head(pat) /\ FnMatch(Tail(s), Tail(pat))

\* Source.is_satisfy_rule: a directory under the root is matched with a
\* trailing "/".
IsSatisfyRule(p, rule, fs) ==
    LET s == PathStr(p) \o (IF IsDir(fs, p) THEN <<"/">> ELSE <<>>)
    IN s = rule \/ FnMatch(s, rule)

MatchesAnyRule(rules, fs, p) ==
    \E i \in 1..Len(rules) : IsSatisfyRule(p, rules[i], fs)

IsIgnoreNever(cache, rules, fs, p) == [val |-> FALSE, cache |-> cache]

\* Source.is_ignore: the value returned and the cache it leaves.  The cache
\* is keyed by the relative path alone.
IsIgnore(cache, rules, fs, p) ==
    IF p = Root THEN [val |-> FALSE, cache |-> cache]
    ELSE IF cache[p] # "unset" THEN [val |-> cache[p] = "yes", cache |-> cache]
    ELSE LET v == MatchesAnyRule(rules, fs, p)
         IN [val |-> v, cache |-> [cache EXCEPT ![p] = IF v THEN "yes" ELSE "no"]]

EmptyCache == [p \in Universe |-> "unset"]

----------------------------------------------------------------------------
(* FileComparer *)

Res == 1000

Abs(x) == IF x < 0 THEN -x ELSE x

\* sync.py: int(f * mtime1) - micro_error <= int(f * mtime2)
SeqCompareByDate(t1, t2, f) ==
    LET micro_error == IF f < 1000 THEN 0 ELSE 1
    IN ((f * t1) \div Res) - micro_error <= ((f * t2) \div Res)

ParCompareByDateStrict(t1, t2, f) == f * Abs(t1 - t2) < Res

\* sync_parallel.py: f * abs(mtime1 - mtime2) <= 2
ParCompareByDate(t1, t2, f) == f * Abs(t1 - t2) <= 2 * Res

RECURSIVE FileSize(_)
FileSize(c) == IF c = <<>> THEN 0 ELSE Len(Head(c)) + 1 + FileSize(Tail(c))

\* FileComparer._calculate_hash: "" when the read raises, the digest of the
\* content otherwise (digests of different contents differ).
CalculateHash(fs, p, flt) ==
    IF ~IsFile(fs, p) \/ <<"read", p>> \in flt THEN <<>> ELSE <<fs[p].content>>

\* The reads of the target's files that raise, as faults of its paths.
TargetReads(flt) == { <<"read", x[2]>> : x \in { y \in flt : y[1] = "read_target" } }

\* FileComparer.compare_by_hash on source path p and target path q.
CompareByHash(sfs, p, flt, dfs, q) ==
    IF ~(IsFile(sfs, p) /\ IsFile(dfs, q)) THEN FALSE
    ELSE IF FileSize(sfs[p].content) # FileSize(dfs[q].content) THEN FALSE
    ELSE CalculateHash(sfs, p, flt) = CalculateHash(dfs, q, TargetReads(flt))

----------------------------------------------------------------------------
(* The action log *)

LogPath == <<LogName>>

\* Logger.log(action, path): "[timestamp] action path"; the timestamp is
\* left out.
LogLine(action, text) == <<action>> \o text

----------------------------------------------------------------------------
(* ObjectStoreGuard: rm_git_objects_file *)

\* ".git/objects/" in file_path
InGitObjects(p) ==
    \E i \in 1..Len(p) : i + 1 < Len(p) /\ p[i] = ".git" /\ p[i + 1] = "objects"

\* re.fullmatch(r"[0-9a-f]{38}", name)
IsGitObjectName(n) ==
    /\ Len(CharsOf(n)) = 38
    /\ \A i \in 1..Len(CharsOf(n)) : CharsOf(n)[i] \in HexDigits

\* Steps 3 and 4, the same in both engines but for the directory the
\* parallel engine makes again: remove the file, or remove its directory
\* when the file is all it holds.
RemoveObject(eng, fs, p, flt, t) ==
    IF IsFile(fs, p) /\ <<"remove", p>> \notin flt
    THEN [ok |-> TRUE, fs |-> RemoveEntry(fs, p, t), lines |-> <<>>]
    ELSE LET warn == <<LogLine("Warning", <<"os.remove">> \o PathStr(p))>>
         IN IF Exists(fs, p) /\ Cardinality(Children(fs, Parent(p))) = 1
            THEN IF <<"rmtree", Parent(p)>> \in flt
                 THEN [ok |-> FALSE, fs |-> fs,
                       lines |-> warn \o <<LogLine("ERROR", <<"rm">> \o PathStr(p))>>]
                 ELSE [ok |-> TRUE,
                       fs |-> IF eng = "par"
                              THEN MakeDirs(RmTree(fs, Parent(p), t), Parent(p), t)
                              ELSE RmTree(fs, Parent(p), t),
                       lines |-> warn]
            ELSE [ok |-> FALSE, fs |-> fs,
                  lines |-> warn \o <<LogLine("ERROR", <<"count">> \o PathStr(p))>>]

\* Sync.rm_git_objects_file (sync.py) and ParallelSync.rm_git_objects_file
\* (sync_parallel.py): the result, the tree and the lines logged.
RmGitObjectsFile(eng, fs, p, flt, t) ==
    IF eng = "seq" /\ ~IsGitObjectName(BaseName(p))
    THEN [ok |-> FALSE, fs |-> fs,
          lines |-> <<LogLine("ERROR", <<"name">> \o PathStr(p))>>]
    ELSE IF eng = "par" /\ ~IsFile(fs, p)
    THEN [ok |-> FALSE, fs |-> fs,
          lines |-> <<LogLine("ERROR", <<"notfile">> \o PathStr(p))>>]
    ELSE IF ~InGitObjects(p)
    THEN [ok |-> FALSE, fs |-> fs,
          lines |-> <<LogLine("ERROR", <<"path">> \o PathStr(p))>>]
    ELSE RemoveObject(eng, fs, p, flt, t)

----------------------------------------------------------------------------
(* SyncPlanner: compare_files, sync_file *)

\* Sync.compare_files / ParallelSync.compare_files: TRUE when the files are
\* the same under the mode; an exception of the comparison (getmtime or
\* getsize raising) is caught and answered with False.
CompareFiles(eng, md, f, sfs, dfs, p, flt) ==
    IF ~Exists(dfs, p) THEN FALSE
    ELSE IF <<"stat", p>> \in flt THEN FALSE
    ELSE IF md = "date"
    THEN IF eng = "seq"
         THEN SeqCompareByDate(sfs[p].mtime, dfs[p].mtime, f)
         ELSE LET is_same_file == ParCompareByDate(sfs[p].mtime, dfs[p].mtime, f)
              IN IF ~InGitObjects(p) \/ is_same_file THEN is_same_file
                 ELSE CompareByHash(sfs, p, flt, dfs, p)
    ELSE IF md = "file" THEN CompareByHash(sfs, p, flt, dfs, p)
    ELSE FALSE

\* shutil.copy2(src_file, dst_file): into the directory when the target path
\* is one; raises when the environment makes it, when the directory above is
\* missing or when the place to write is a directory.
CopyTarget(dfs, p) == IF IsDir(dfs, p) THEN p \o <<BaseName(p)>> ELSE p

CopyRaises(dfs, p, flt) ==
    \/ <<"copy", p>> \in flt
    \/ ~IsDir(dfs, Parent(p))
    \/ CopyTarget(dfs, p) \notin Universe
    \/ IsDir(dfs, CopyTarget(dfs, p))

Copy2Truncated(sfs, dfs, p, t) ==
    PutFile(dfs, CopyTarget(dfs, p), <<>>, sfs[p].mtime, t)

Copy2(sfs, dfs, p, t) ==
    PutFile(dfs, CopyTarget(dfs, p), sfs[p].content, sfs[p].mtime, t)

NeedsCopyAlways(eng, md, f, sfs, dfs, p, flt) == TRUE

\* "elif not self.compare_files(src_file, dst_file)"
NeedsCopy(eng, md, f, sfs, dfs, p, flt) == ~CompareFiles(eng, md, f, sfs, dfs, p, flt)

\* What rm_git_objects_file returned, as the events record it.
GuardAnswer(g) == IF g.ok THEN "true" ELSE "false"

GuardRefusedNever(g) == FALSE

\* "if not self.rm_git_objects_file(...)": the caller gives up on the path.
GuardRefused(g) == ~g.ok

\* Sync.sync_file / ParallelSync.sync_file_task for the source file p:
\* the action ("added", "modified", "unchanged", "error"), the target tree,
\* the lines logged and what the guard returned ("none" when not called).
SyncFile(eng, md, f, sfs, dfs, p, flt, t) ==
    LET errline == <<LogLine("ERROR", <<"sync_file">> \o PathStr(p))>>
    IN
    IF ~Exists(dfs, p)
    THEN LET made == IF Exists(dfs, Parent(p)) \/ <<"mkdir", Parent(p)>> \in flt
                        \/ \E a \in Range(Ancestors(p)) : IsFile(dfs, a)
                     THEN dfs ELSE MakeDirs(dfs, Parent(p), t)
         IN IF CopyRaises(made, p, flt)
            THEN [action |-> "error", dst |-> made, lines |-> errline, guard |-> "none"]
            ELSE [action |-> "added", dst |-> Copy2(sfs, made, p, t),
                  lines |-> <<LogLine("A", PathStr(p))>>, guard |-> "none"]
    ELSE IF NeedsCopy(eng, md, f, sfs, dfs, p, flt)
    THEN LET g == IF InGitObjects(p) THEN RmGitObjectsFile(eng, dfs, p, flt, t)
                  ELSE [ok |-> TRUE, fs |-> dfs, lines |-> <<>>]
             answer == IF InGitObjects(p) THEN GuardAnswer(g) ELSE "none"
         IN IF GuardRefused(g)
            THEN [action |-> "error", dst |-> g.fs, lines |-> g.lines, guard |-> answer]
            ELSE IF CopyRaises(g.fs, p, flt)
            THEN [action |-> "error", dst |-> g.fs, lines |-> g.lines \o errline,
                  guard |-> answer]
            ELSE [action |-> "modified", dst |-> Copy2(sfs, g.fs, p, t),
                  lines |-> g.lines \o <<LogLine("M", PathStr(p))>>,
                  guard |-> answer]
    ELSE [action |-> "unchanged", dst |-> dfs, lines |-> <<>>, guard |-> "none"]

----------------------------------------------------------------------------
(* RedundancyReaper: _is_redundant, is_redundant, the walk *)

IsRedundantBaseNoFlag(cache, rules, del, sfs, dfs, p) ==
    LET ig == IsIgnore(cache, rules, dfs, p)
    IN [val |-> ~Exists(sfs, p) /\ ~ig.val, cache |-> ig.cache]

\* Sync._is_redundant for the target path p: the value and the cache left.
IsRedundantBase(cache, rules, del, sfs, dfs, p) ==
    LET ig == IsIgnore(cache, rules, dfs, p)
    IN [val |-> (~Exists(sfs, p) /\ ~ig.val) \/ (del /\ ig.val), cache |-> ig.cache]

ClimbRedundantNever(cache, rules, del, sfs, dfs, p) == [val |-> FALSE, cache |-> cache]

\* The while loop of is_redundant, entered with sync_path = p: climb until a
\* redundant directory or the target root.
RECURSIVE ClimbRedundant(_, _, _, _, _, _)
ClimbRedundant(cache, rules, del, sfs, dfs, p) ==
    LET up == Parent(p)
    IN IF up = Root THEN [val |-> FALSE, cache |-> cache]
       ELSE LET r == IsRedundantBase(cache, rules, del, sfs, dfs, up)
            IN IF r.val THEN r
               ELSE ClimbRedundant(r.cache, rules, del, sfs, dfs, up)

\* The paths the while loop of is_redundant passes to _is_redundant when it
\* is entered with sync_path = p, in the order of the calls.
RECURSIVE ClimbVisits(_, _, _, _, _, _)
ClimbVisits(cache, rules, del, sfs, dfs, p) ==
    LET up == Parent(p)
    IN IF up = Root THEN <<>>
       ELSE LET r == IsRedundantBase(cache, rules, del, sfs, dfs, up)
            IN IF r.val THEN <<up>>
               ELSE <<up>> \o ClimbVisits(r.cache, rules, del, sfs, dfs, up)

IsRedundantNoClimb(cache, rules, del, sfs, dfs, p) ==
    IF ~Exists(dfs, p) THEN [val |-> FALSE, cache |-> cache]
    ELSE IsRedundantBase(cache, rules, del, sfs, dfs, p)

\* Sync.is_redundant / ParallelSync.is_redundant
IsRedundant(cache, rules, del, sfs, dfs, p) ==
    IF ~Exists(dfs, p) THEN [val |-> FALSE, cache |-> cache]
    ELSE LET ig == IsIgnore(cache, rules, dfs, p)
             r == IsRedundantBase(ig.cache, rules, del, sfs, dfs, p)
         IN IF (~del /\ ig.val) /\ ~r.val
            THEN ClimbRedundant(r.cache, rules, del, sfs, dfs, p)
            ELSE r

SubDirs(fs, d) == { p \in Children(fs, d) : fs[p].kind = "dir" }

NonDirs(fs, d) == { p \in Children(fs, d) : fs[p].kind # "dir" }

RECURSIVE ConcatAll(_)
ConcatAll(ss) == IF ss = <<>> THEN <<>> ELSE Head(ss) \o ConcatAll(Tail(ss))

\* os.walk(top, topdown=False) as the reaper reads it: below each directory
\* first, then its files, then its directories.
RECURSIVE WalkBottomUp(_, _)
WalkBottomUp(fs, d) ==
    LET ds == SortPaths(SubDirs(fs, d))
        fl == SortPaths(NonDirs(fs, d))
    IN ConcatAll([i \in 1..Len(ds) |-> WalkBottomUp(fs, ds[i])])
       \o [i \in 1..Len(fl) |-> [path |-> fl[i], is_file |-> TRUE]]
       \o [i \in 1..Len(ds) |-> [path |-> ds[i], is_file |-> FALSE]]

DirIsEmptyAlways(dfs, p) == TRUE

\* "if not os.listdir(sync_path)"
DirIsEmpty(dfs, p) == Children(dfs, p) = {}

\* One entry of the reaper: Sync.remove_extra_files's loop bodies, and
\* ParallelSync.delete_task when the entry was collected as redundant.
\* The result: what was done, the tree, the lines, what the guard returned.
DeleteEntry(eng, dfs, item, flt, t) ==
    LET p == item.path
        errline(k) == <<LogLine("ERROR", <<k>> \o PathStr(p))>>
    IN
    IF item.is_file
    THEN IF InGitObjects(p)
         THEN LET g == RmGitObjectsFile(eng, dfs, p, flt, t)
              IN IF GuardRefused(g)
                 THEN [action |-> "error", dst |-> g.fs,
                       lines |-> g.lines \o errline("delete"), guard |-> GuardAnswer(g)]
                 ELSE [action |-> "deleted_files", dst |-> g.fs,
                       lines |-> g.lines \o <<LogLine("D", PathStr(p))>>,
                       guard |-> GuardAnswer(g)]
         ELSE IF ~IsFile(dfs, p) \/ <<"remove", p>> \in flt
         THEN [action |-> "error", dst |-> dfs, lines |-> errline("delete"),
               guard |-> "none"]
         ELSE [action |-> "deleted_files", dst |-> RemoveEntry(dfs, p, t),
               lines |-> <<LogLine("D", PathStr(p))>>, guard |-> "none"]
    ELSE IF ~IsDir(dfs, p) \/ <<"listdir", p>> \in flt
    THEN [action |-> "error", dst |-> dfs, lines |-> errline("delete_dir"),
          guard |-> "none"]
    ELSE IF DirIsEmpty(dfs, p)
    THEN IF <<"remove", p>> \in flt
         THEN [action |-> "error", dst |-> dfs, lines |-> errline("delete_dir"),
               guard |-> "none"]
         ELSE [action |-> "deleted_dirs", dst |-> RemoveEntry(dfs, p, t),
               lines |-> <<LogLine("D", PathStr(p) \o <<"/">>)>>, guard |-> "none"]
    ELSE [action |-> "error", dst |-> dfs, lines |-> errline("not_empty"),
          guard |-> "none"]

----------------------------------------------------------------------------
(* Logger.save and reset_sync *)

SaveNoMirror(sfs, dfs, buf, flt, t) ==
    IF IsDir(dfs, LogPath)
    THEN [src |-> sfs, dst |-> dfs, logs |-> buf]
    ELSE [src |-> sfs,
          dst |-> PutFile(dfs, LogPath,
                          (IF IsFile(dfs, LogPath) THEN dfs[LogPath].content ELSE <<>>) \o buf,
                          t, t),
          logs |-> <<>>]

\* Logger.save / ThreadSafeLogger.save: append the buffer to the target's
\* log, copy the log to the source root, empty the buffer.  An IOError
\* leaves the buffer as it is.
Save(sfs, dfs, buf, flt, t) ==
    IF IsDir(dfs, LogPath) \/ <<"append", LogPath>> \in flt
    THEN [src |-> sfs, dst |-> dfs, logs |-> buf]
    ELSE LET old == IF IsFile(dfs, LogPath) THEN dfs[LogPath].content ELSE <<>>
             d1 == PutFile(dfs, LogPath, old \o buf, t, t)
         IN IF IsDir(sfs, LogPath) \/ <<"mirror", LogPath>> \in flt
            THEN [src |-> sfs, dst |-> d1, logs |-> buf]
            ELSE [src |-> PutFile(sfs, LogPath, d1[LogPath].content, t, t),
                  dst |-> d1, logs |-> <<>>]

\* shutil.copytree(source, target, ignore=ignore_func): every entry of the
\* source no ignored name leads to, with the ignore cache the calls leave.
RECURSIVE CopyTree(_, _, _, _, _, _)
CopyTree(cache, rules, sfs, out, names, t) ==
    IF names = <<>> THEN [dst |-> out, cache |-> cache]
    ELSE LET p == Head(names)
             ig == IsIgnore(cache, rules, sfs, p)
         IN IF ig.val THEN CopyTree(ig.cache, rules, sfs, out, Tail(names), t)
            ELSE IF IsDir(sfs, p)
            THEN LET sub == CopyTree(ig.cache, rules, sfs,
                                     [out EXCEPT ![p] = DirEntry(sfs[p].mtime)],
                                     ListDir(sfs, p), t)
                 IN CopyTree(sub.cache, rules, sfs, sub.dst, Tail(names), t)
            ELSE CopyTree(ig.cache, rules, sfs, [out EXCEPT ![p] = sfs[p]],
                          Tail(names), t)

EmptyTree == [p \in Universe |-> IF p = Root THEN DirEntry(0) ELSE NoEntry]

\* The tree of a root that is gone.
NoTree == [p \in Universe |-> NoEntry]

RestoreLogNever(fs, old_logs, t) == [dst |-> fs, lines |-> <<>>]

\* "if old_logs: ... f.writelines(old_logs)": the log of the target written
\* back over what the copy put there; a failure to write is a warning.
RestoreLog(fs, old_logs, t) ==
    IF old_logs = <<>> THEN [dst |-> fs, lines |-> <<>>]
    ELSE IF IsDir(fs, LogPath)
    THEN [dst |-> fs, lines |-> <<LogLine("WARNING", <<"restore_log">>)>>]
    ELSE [dst |-> PutFile(fs, LogPath, old_logs, t, t), lines |-> <<>>]

\* Sync.reset_sync / ParallelSync.reset_sync
ResetSync(cache, rules, sfs, dfs, flt, t) ==
    LET old_logs == IF IsFile(dfs, LogPath) THEN dfs[LogPath].content ELSE <<>>
        reset == <<LogLine("RESET", <<"sync_root">>)>>
    IN IF <<"rmtree", Root>> \in flt
       THEN [ok |-> FALSE, dst |-> dfs, cache |-> cache,
             lines |-> reset \o <<LogLine("ERROR", <<"reset">>)>>]
       ELSE IF <<"copytree", Root>> \in flt
       THEN [ok |-> FALSE, dst |-> NoTree, cache |-> cache,
             lines |-> reset \o <<LogLine("ERROR", <<"reset">>)>>]
       ELSE LET c == CopyTree(cache, rules, sfs, EmptyTree, ListDir(sfs, Root), t)
                restored == RestoreLog(c.dst, old_logs, t)
            IN [ok |-> TRUE, dst |-> restored.dst, cache |-> c.cache,
                lines |-> reset \o restored.lines]

----------------------------------------------------------------------------
(* The walks of the parallel engine *)

\* The names of a listing the ignore rules let through, and the cache left.
RECURSIVE FilterIgnored(_, _, _, _)
FilterIgnored(cache, rules, sfs, names) ==
    IF names = <<>> THEN [kept |-> <<>>, cache |-> cache]
    ELSE LET ig == IsIgnore(cache, rules, sfs, Head(names))
             rest == FilterIgnored(ig.cache, rules, sfs, Tail(names))
         IN [kept |-> (IF ig.val THEN <<>> ELSE <<Head(names)>>) \o rest.kept,
             cache |-> rest.cache]

\* ParallelSync.collect_sync_tasks: os.walk(src_dir) top-down, ignored
\* directories pruned, the files not ignored in walk order.
RECURSIVE CollectSyncTasks(_, _, _, _)
CollectSyncTasks(cache, rules, sfs, dirs) ==
    IF dirs = <<>> THEN [tasks |-> <<>>, cache |-> cache]
    ELSE LET d == Head(dirs)
             ds == FilterIgnored(cache, rules, sfs, SortPaths(SubDirs(sfs, d)))
             fl == FilterIgnored(ds.cache, rules, sfs, SortPaths(NonDirs(sfs, d)))
             below == CollectSyncTasks(fl.cache, rules, sfs, ds.kept)
             rest == CollectSyncTasks(below.cache, rules, sfs, Tail(dirs))
         IN [tasks |-> fl.kept \o below.tasks \o rest.tasks, cache |-> rest.cache]

IsSpecialFileNever(it) == FALSE

\* "if relative_path in special_files: continue", in the loop over files
IsSpecialFile(it) == it.is_file /\ it.path = LogPath

\* ParallelSync.collect_delete_tasks: the entries of the bottom-up walk that
\* is_redundant holds of, the log file left out.
RECURSIVE CollectDeleteTasks(_, _, _, _, _, _)
CollectDeleteTasks(cache, rules, del, sfs, dfs, items) ==
    IF items = <<>> THEN [tasks |-> <<>>, cache |-> cache]
    ELSE LET it == Head(items)
         IN IF IsSpecialFile(it)
            THEN CollectDeleteTasks(cache, rules, del, sfs, dfs, Tail(items))
            ELSE LET r == IsRedundant(cache, rules, del, sfs, dfs, it.path)
                     rest == CollectDeleteTasks(r.cache, rules, del, sfs, dfs, Tail(items))
                 IN [tasks |-> (IF r.val THEN <<it>> ELSE <<>>) \o rest.tasks,
                     cache |-> rest.cache]

----------------------------------------------------------------------------
(* run_sync *)

MaxPasses == 2

ZeroCounter ==
    [added |-> 0, modified |-> 0, failed |-> 0, deleted_files |-> 0, deleted_dirs |-> 0]

IncrementLost(c, action) == c

IncrementTwice(c, action) ==
    IF action = "added" THEN [c EXCEPT !.added = @ + 1]
    ELSE IF action = "modified" THEN [c EXCEPT !.modified = @ + 1]
    ELSE IF action = "error" THEN [c EXCEPT !.failed = @ + 2]
    ELSE IF action = "deleted_files" THEN [c EXCEPT !.deleted_files = @ + 1]
    ELSE IF action = "deleted_dirs" THEN [c EXCEPT !.deleted_dirs = @ + 1]
    ELSE c

\* ThreadSafeCounter.increment, and the sums of the sequential engine.
Increment(c, action) ==
    IF action = "added" THEN [c EXCEPT !.added = @ + 1]
    ELSE IF action = "modified" THEN [c EXCEPT !.modified = @ + 1]
    ELSE IF action = "error" THEN [c EXCEPT !.failed = @ + 1]
    ELSE IF action = "deleted_files" THEN [c EXCEPT !.deleted_files = @ + 1]
    ELSE IF action = "deleted_dirs" THEN [c EXCEPT !.deleted_dirs = @ + 1]
    ELSE c

Event(phase, p, action, guard) ==
    [phase |-> phase, path |-> p, action |-> action, guard |-> guard]

\* What a pass leaves as it is: the arguments of the run and the places of
\* the two roots.
Config == <<engine, mode, delete, time_factor, max_workers, faults, interval,
            source_root, sync_root>>

\* The invocations of tasker.py for one tasker id that can run at the same
\* time: each is a process of its own.
Procs == {"p1", "p2"}

\* An invocation that has not started, or has exited.
Exited == [pc |-> "idle", fn |-> "none", cmd |-> "none"]

\* The files of the task queue and its invocations: a synchronisation run
\* does not touch them.
Queue == <<tasker_file, lock_file, run_file, proc>>

\* No task queue: no task file, no lock file, no run file, no invocation.
QueueIdle ==
    /\ tasker_file = <<>>
    /\ lock_file = FALSE
    /\ run_file = FALSE
    /\ proc = [p \in Procs |-> Exited]

----------------------------------------------------------------------------
(* The two roots: apart, or one inside the other *)

\* The source root and the target root are directories of which neither is
\* inside the other: src and dst are two trees, and disk is not used.
Apart == ~IsPrefix(source_root, sync_root) /\ ~IsPrefix(sync_root, source_root)

\* os.path.exists of a root.
RootExists(d, r) == d[r].kind = "dir"

\* The tree under the directory r of the tree d, by relative paths.
View(d, r) ==
    [p \in Universe |-> IF r \o p \in Universe THEN d[r \o p] ELSE NoEntry]

\* The tree d with v for the tree under its directory r.
Put(d, r, v) ==
    [q \in Universe |->
        IF IsPrefix(r, q) THEN v[SubSeq(q, Len(r) + 1, Len(q))] ELSE d[q]]

\* The relative paths whose place under the target root has a name longer
\* than the system takes: os.makedirs and shutil.copy2 raise for them.
TooLong(r) == { p \in Universe : r \o p \notin Universe }

\* The target tree becomes v: written where the target root is.  With one
\* root inside the other the source tree is what the write leaves of it.
Store(v) ==
    IF Apart THEN dst' = v /\ UNCHANGED <<src, disk>>
    ELSE /\ disk' = Put(disk, sync_root, v)
         /\ src' = View(disk', source_root)
         /\ dst' = View(disk', sync_root)

\* Logger.save has left the target tree dv and the source tree sv, which
\* is the source tree with the copy of the log when the copy was made.
StoreBoth(sv, dv) ==
    IF Apart THEN src' = sv /\ dst' = dv /\ UNCHANGED disk
    ELSE /\ disk' = LET d1 == Put(disk, sync_root, dv)
                    IN IF sv[LogPath] # src[LogPath]
                       THEN [d1 EXCEPT ![source_root \o LogPath] = sv[LogPath]]
                       ELSE d1
         /\ src' = View(disk', source_root)
         /\ dst' = View(disk', sync_root)

\* In Logger.save the open of the log raises when the target root is gone,
\* and shutil.copy2(log_file, copy_file) when the source root is.
SaveFaults(flt) ==
    IF Apart THEN flt
    ELSE flt \cup (IF RootExists(disk, sync_root) THEN {} ELSE {<<"append", LogPath>>})
             \cup (IF RootExists(disk, source_root) THEN {} ELSE {<<"mirror", LogPath>>})


SinglePassNever(iv) == FALSE

\* run_sync leaves its loop after the pass when the interval is not positive.
SinglePass(iv) == iv <= 0

NeedsReloadIfNewer(sfs, recorded) ==
    Exists(sfs, IgnorePath) /\ sfs[IgnorePath].mtime > recorded

\* The test at the head of run_sync's loop: the ignore file is missing or is
\* newer than the one that was loaded, unless it is missing and none was
\* loaded.
NeedsReload(sfs, recorded) ==
    LET present == Exists(sfs, IgnorePath)
        newer == ~present \/ sfs[IgnorePath].mtime > recorded
    IN newer /\ ~(~present /\ recorded = 0)

\* The head of run_sync's loop: the pass's header lines, the reload of the
\* ignore rules when the ignore file is new or newer, and the listing of the
\* source root that sync_directory starts with.  The reload stands before
\* the try statement: when it raises, the exception leaves run_sync with the
\* header lines still in the buffer.
StartPass ==
    /\ pc \in {"idle", "wait", "retry_wait"}
    /\ sync_count < MaxPasses
    /\ sync_count' = sync_count + 1
    /\ now' = now + Res
    /\ counter' = ZeroCounter
    /\ LET header == << <<"=====">>, <<"START", ToString(sync_count + 1)>>,
                        <<"SRC->DST">> >>
           present == Exists(src, IgnorePath)
           raises == /\ NeedsReload(src, syncignore_mtime) /\ present
                     /\ <<"reload", IgnorePath>> \in faults
           reload == NeedsReload(src, syncignore_mtime) /\ ~raises
       IN /\ logs' = logs \o header \o (IF reload THEN << <<"RULES_LOADED">> >> ELSE <<>>)
          /\ pc' = IF raises THEN "crashed"
                   ELSE IF mode = "reset" THEN "reset"
                   ELSE IF engine = "seq" THEN "plan" ELSE "collect"
          /\ todo' = IF ~raises /\ mode # "reset" /\ engine = "seq"
                     THEN ListDir(src, Root) ELSE <<>>
          /\ syncignore_mtime' =
                 IF reload THEN (IF present THEN src[IgnorePath].mtime ELSE 0)
                 ELSE syncignore_mtime
          /\ ignore_rules' = IF reload THEN GetIgnoreRules(src, faults) ELSE ignore_rules
          /\ cache_ignore' = IF reload THEN EmptyCache ELSE cache_ignore
    /\ src0' = src
    /\ dst0' = dst
    /\ hist' = <<>>
    /\ last' = counter
    /\ UNCHANGED <<Queue, Config, fallback, src, dst, disk, inflight, dir_tasks>>

\* One turn of the loop of Sync.sync_directory on the planner's state, the
\* recursion kept as a stack: an ignored entry is skipped, a directory is
\* made in the target and its listing put first, a file goes to sync_file.
PlanStep(st) ==
    LET p == Head(st.todo)
        ig == IsIgnore(st.cache, ignore_rules, src, p)
        st1 == [st EXCEPT !.cache = ig.cache, !.todo = Tail(st.todo)]
    IN IF ig.val THEN st1
       ELSE IF IsDir(src, p)
       THEN IF ~Exists(st.dst, p)
               /\ (<<"mkdir", p>> \in faults
                   \/ \E a \in Range(Ancestors(p)) : IsFile(st.dst, a))
            THEN [st1 EXCEPT
                     !.logs = Append(@, LogLine("ERROR", <<"mkdir">> \o PathStr(p))),
                     !.counter = Increment(@, "error"),
                     !.hist = Append(@, Event("plan", p, "error", "none"))]
            ELSE [st1 EXCEPT !.dst = MakeDirs(@, p, now),
                             !.todo = ListDir(src, p) \o @]
       ELSE LET r == SyncFile("seq", mode, time_factor, src, st.dst, p, faults, now)
            IN [st1 EXCEPT !.dst = r.dst,
                           !.logs = @ \o r.lines,
                           !.counter = Increment(@, r.action),
                           !.hist = Append(@, Event("plan", p, r.action, r.guard))]

\* Sync.sync_directory on the source root, to its end.
RECURSIVE SyncDirectory(_)
SyncDirectory(st) == IF st.todo = <<>> THEN st ELSE SyncDirectory(PlanStep(st))

\* The turn was the call of sync_directory on a directory: os.listdir reads
\* the directory after os.makedirs has made its place in the target.
Entered(td, st) ==
    /\ IsDir(src, Head(td))
    /\ ~IsIgnore(cache_ignore, ignore_rules, src, Head(td)).val
    /\ st.hist = hist

SeqPlanStep ==
    /\ pc = "plan" /\ engine = "seq" /\ todo # <<>>
    /\ LET st == PlanStep([dst |-> dst, cache |-> cache_ignore, logs |-> logs,
                           counter |-> counter, hist |-> hist, todo |-> todo])
       IN /\ Store(st.dst)
          /\ cache_ignore' = st.cache
          /\ logs' = st.logs
          /\ counter' = st.counter
          /\ hist' = st.hist
          /\ todo' = IF Entered(todo, st)
                     THEN ListDir(src', Head(todo)) \o Tail(todo)
                     ELSE st.todo
    /\ UNCHANGED <<Queue, Config, fallback, now, ignore_rules, syncignore_mtime, sync_count, pc,
                   inflight, dir_tasks, src0, dst0, last>>

PlannerReturnedEarly(td, fl) == TRUE

\* The call of the planner in run_sync has returned: nothing is left to
\* visit, and the pool of the parallel engine has run every task.
PlannerReturned(td, fl) == td = <<>> /\ fl = {}

\* Sync.remove_extra_files starts: os.walk(sync_root, topdown=False).
SeqBeginReap ==
    /\ pc = "plan" /\ engine = "seq" /\ PlannerReturned(todo, inflight)
    /\ todo' = WalkBottomUp(dst, Root)
    /\ pc' = IF todo' = <<>> THEN "finish" ELSE "reap"
    /\ UNCHANGED <<Queue, Config, fallback, src, dst, disk, now, ignore_rules, cache_ignore, syncignore_mtime,
                   logs, counter, sync_count, inflight, dir_tasks, src0, dst0, hist, last>>

\* One entry of the walk of Sync.remove_extra_files.
SeqReapStep ==
    /\ pc = "reap" /\ engine = "seq" /\ todo # <<>>
    /\ todo' = Tail(todo)
    /\ pc' = IF todo' = <<>> THEN "finish" ELSE "reap"
    /\ LET it == Head(todo)
       IN IF IsSpecialFile(it)
          THEN UNCHANGED <<src, dst, disk, logs, counter, hist, cache_ignore>>
          ELSE LET r == IsRedundant(cache_ignore, ignore_rules, delete, src, dst, it.path)
                   d == DeleteEntry("seq", dst, it, faults, now)
               IN /\ cache_ignore' = r.cache
                  /\ IF r.val
                     THEN /\ Store(d.dst)
                          /\ logs' = logs \o d.lines
                          /\ counter' = Increment(counter, d.action)
                          /\ hist' = Append(hist, Event("reap", it.path, d.action, d.guard))
                     ELSE /\ hist' = Append(hist, Event("reap", it.path, "kept", "none"))
                          /\ UNCHANGED <<src, dst, disk, logs, counter>>
    /\ UNCHANGED <<Queue, Config, fallback, now, ignore_rules, syncignore_mtime, sync_count,
                   inflight, dir_tasks, src0, dst0, last>>

\* ParallelSync.sync_directory_parallel up to the pool: collect the tasks.
ParCollectSync ==
    /\ pc = "collect" /\ engine = "par"
    /\ LET c == CollectSyncTasks(cache_ignore, ignore_rules, src, <<Root>>)
       IN /\ todo' = c.tasks
          /\ cache_ignore' = c.cache
    /\ pc' = "copy"
    /\ UNCHANGED <<Queue, Config, fallback, src, dst, disk, now, ignore_rules, syncignore_mtime, logs, counter,
                   sync_count, inflight, dir_tasks, src0, dst0, hist, last>>

\* A worker of the ThreadPoolExecutor takes the next task of the queue.
ParTake ==
    /\ pc \in {"copy", "del_files"} /\ engine = "par"
    /\ todo # <<>>
    /\ Cardinality(inflight) < max_workers
    /\ inflight' = inflight \cup {Head(todo)}
    /\ todo' = Tail(todo)
    /\ UNCHANGED <<Queue, Config, fallback, src, dst, disk, now, ignore_rules, cache_ignore, syncignore_mtime,
                   logs, counter, sync_count, pc, dir_tasks, src0, dst0, hist, last>>

\* The worker of the file task p is about to take the fallback of
\* rm_git_objects_file: the target file is to be overwritten, os.remove has
\* raised, and the listing of the directory has given the one file.
TakesFallback(p) ==
    /\ Exists(dst, p)
    /\ NeedsCopy("par", mode, time_factor, src, dst, p, faults)
    /\ InGitObjects(p)
    /\ IsFile(dst, p)
    /\ <<"remove", p>> \in faults
    /\ Cardinality(Children(dst, Parent(p))) = 1

\* The rest of sync_file_task once the listing has given one file: the
\* directory removed and made again, the copy, the line and the count.
AfterListing(sfs, dfs, p, flt, t) ==
    LET errline == <<LogLine("ERROR", <<"sync_file">> \o PathStr(p))>>
        fs1 == MakeDirs(RmTree(dfs, Parent(p), t), Parent(p), t)
    IN IF <<"rmtree", Parent(p)>> \in flt
       THEN [action |-> "error", dst |-> dfs,
             lines |-> <<LogLine("ERROR", <<"rm">> \o PathStr(p))>>, guard |-> "false"]
       ELSE IF CopyRaises(fs1, p, flt)
       THEN [action |-> "error", dst |-> fs1, lines |-> errline, guard |-> "true"]
       ELSE [action |-> "modified", dst |-> Copy2(sfs, fs1, p, t),
             lines |-> <<LogLine("M", PathStr(p))>>, guard |-> "true"]

\* ParallelSync.sync_file_task, run by a worker: the whole task, or the
\* task up to the listing of the directory in rm_git_objects_file.
ParSyncFileTask ==
    /\ pc = "copy" /\ engine = "par"
    /\ \E p \in inflight \ fallback :
          IF TakesFallback(p)
          THEN /\ fallback' = fallback \cup {p}
               /\ logs' = logs \o <<LogLine("Warning", <<"os.remove">> \o PathStr(p))>>
               /\ UNCHANGED <<src, dst, disk, counter, hist, inflight>>
          ELSE LET r == SyncFile("par", mode, time_factor, src, dst, p, faults, now)
               IN /\ Store(r.dst)
                  /\ logs' = logs \o r.lines
                  /\ counter' = Increment(counter, r.action)
                  /\ hist' = Append(hist, Event("plan", p, r.action, r.guard))
                  /\ inflight' = inflight \ {p}
                  /\ UNCHANGED fallback
    /\ UNCHANGED <<Queue, Config, now, ignore_rules, cache_ignore, syncignore_mtime,
                   sync_count, pc, todo, dir_tasks, src0, dst0, last>>

\* The worker goes on after the listing: shutil.rmtree of the directory as
\* it is by now, os.makedirs, and the rest of sync_file_task.
ParFallback ==
    /\ pc = "copy" /\ engine = "par"
    /\ \E p \in fallback :
          LET r == AfterListing(src, dst, p, faults, now)
          IN /\ Store(r.dst)
             /\ logs' = logs \o r.lines
             /\ counter' = Increment(counter, r.action)
             /\ hist' = Append(hist, Event("plan", p, r.action, r.guard))
             /\ inflight' = inflight \ {p}
             /\ fallback' = fallback \ {p}
    /\ UNCHANGED <<Queue, Config, now, ignore_rules, cache_ignore, syncignore_mtime,
                   sync_count, pc, todo, dir_tasks, src0, dst0, last>>

IsFileTaskAny(it) == TRUE

IsFileTask(it) == it.is_file

IsDirTask(it) == ~it.is_file

\* ParallelSync.remove_extra_files_parallel up to the pool: collect the
\* delete tasks and split them into file tasks and directory tasks.
ParCollectDelete ==
    /\ pc = "copy" /\ engine = "par" /\ PlannerReturned(todo, inflight)
    /\ LET c == CollectDeleteTasks(cache_ignore, ignore_rules, delete, src, dst,
                                   WalkBottomUp(dst, Root))
       IN /\ todo' = SelectSeq(c.tasks, IsFileTask)
          /\ dir_tasks' = SelectSeq(c.tasks, IsDirTask)
          /\ cache_ignore' = c.cache
    /\ pc' = "del_files"
    /\ UNCHANGED <<Queue, Config, fallback, src, dst, disk, now, ignore_rules, syncignore_mtime, logs, counter,
                   sync_count, inflight, src0, dst0, hist, last>>

\* ParallelSync.delete_task on a file, run by a worker.
ParDeleteTask ==
    /\ pc = "del_files" /\ engine = "par"
    /\ \E it \in inflight :
          LET d == DeleteEntry("par", dst, it, faults, now)
          IN /\ Store(d.dst)
             /\ logs' = logs \o d.lines
             /\ counter' = Increment(counter, d.action)
             /\ hist' = Append(hist, Event("reap", it.path, d.action, d.guard))
             /\ inflight' = inflight \ {it}
    /\ UNCHANGED <<Queue, Config, fallback, now, ignore_rules, cache_ignore, syncignore_mtime,
                   sync_count, pc, todo, dir_tasks, src0, dst0, last>>

\* ParallelSync.delete_task on a directory: one at a time, in walk order,
\* once the pool of the file tasks has shut down.
ParDeleteDir ==
    /\ pc = "del_files" /\ engine = "par" /\ todo = <<>> /\ inflight = {}
    /\ dir_tasks # <<>>
    /\ LET d == DeleteEntry("par", dst, Head(dir_tasks), faults, now)
       IN /\ Store(d.dst)
          /\ logs' = logs \o d.lines
          /\ counter' = Increment(counter, d.action)
          /\ hist' = Append(hist, Event("reap", Head(dir_tasks).path, d.action, d.guard))
    /\ dir_tasks' = Tail(dir_tasks)
    /\ UNCHANGED <<Queue, Config, fallback, now, ignore_rules, cache_ignore, syncignore_mtime,
                   sync_count, pc, todo, inflight, src0, dst0, last>>

ParEndReap ==
    /\ pc = "del_files" /\ engine = "par" /\ todo = <<>> /\ inflight = {}
    /\ dir_tasks = <<>>
    /\ pc' = "finish"
    /\ UNCHANGED <<Queue, Config, fallback, src, dst, disk, now, ignore_rules, cache_ignore, syncignore_mtime,
                   logs, counter, sync_count, todo, inflight, dir_tasks, src0, dst0, hist, last>>

\* The source tree as shutil.rmtree(sync_root_path) leaves it.
SourceLeft ==
    IF Apart THEN src ELSE View(Put(disk, sync_root, NoTree), source_root)

\* shutil.copytree raises when the source root is gone.
CopyTreeFaults(flt) ==
    IF Apart \/ ~IsPrefix(sync_root, source_root) THEN flt
    ELSE flt \cup {<<"copytree", Root>>}

\* reset mode: reset_sync and the summary line of its result.
Reset ==
    /\ pc = "reset"
    /\ LET r == ResetSync(cache_ignore, ignore_rules, SourceLeft, dst,
                          CopyTreeFaults(faults), now)
       IN /\ Store(r.dst)
          /\ cache_ignore' = r.cache
          /\ logs' = logs \o r.lines
                     \o << <<IF r.ok THEN "RESET_DONE" ELSE "RESET_FAILED">> >>
          /\ hist' = Append(hist, Event("reset", Root, IF r.ok THEN "reset" ELSE "reset_failed",
                                        "none"))
    /\ pc' = "finish"
    /\ UNCHANGED <<Queue, Config, fallback, now, ignore_rules, syncignore_mtime, counter, sync_count,
                   todo, inflight, dir_tasks, src0, dst0, last>>

SummaryLine(c) ==
    <<"SUMMARY", ToString(c.added), ToString(c.modified), ToString(c.deleted_files),
      ToString(c.deleted_dirs), ToString(c.failed)>>

\* The rest of the pass in run_sync: the totals, then the log saved after
\* each of the closing lines; a single pass when interval <= 0.
FinishPass ==
    /\ pc = "finish"
    /\ LET l1 == logs \o (IF mode = "reset" THEN <<>> ELSE <<SummaryLine(counter)>>)
           s1 == Save(src, dst, l1, SaveFaults(faults), now)
           s2 == Save(s1.src, s1.dst, Append(s1.logs, <<"ELAPSED">>),
                      SaveFaults(faults), now)
           s3 == IF engine = "par"
                 THEN Save(s2.src, s2.dst, Append(s2.logs, <<"TASK_DONE">>),
                           SaveFaults(faults), now)
                 ELSE s2
           s4 == Save(s3.src, s3.dst,
                      Append(s3.logs, <<IF SinglePass(interval) THEN "EXIT" ELSE "WAIT">>),
                      SaveFaults(faults), now)
       IN /\ StoreBoth(s4.src, s4.dst)
          /\ logs' = s4.logs
    /\ pc' = IF SinglePass(interval) THEN "done" ELSE "wait"
    /\ UNCHANGED <<Queue, Config, fallback, now, ignore_rules, cache_ignore, syncignore_mtime, counter,
                   sync_count, todo, inflight, dir_tasks, src0, dst0, hist, last>>

\* The places of the try block of run_sync where the main thread is between
\* two calls: before the tasks are collected, between the planner and the
\* reaper, and before the totals and the save.
RaisePoint ==
    \/ pc \in {"collect", "finish"}
    \/ pc = "copy" /\ todo = <<>> /\ inflight = {}
    \/ engine = "seq" /\ pc = "plan" /\ todo = <<>>

\* run_sync's "except Exception": the error line, the save, the end of
\* the loop for a single pass, else the sleep before the next pass.
PassRaises ==
    /\ RaisePoint
    /\ <<"pass", Root>> \in faults
    /\ LET s == Save(src, dst, Append(logs, <<"PASS_ERROR">>), SaveFaults(faults), now)
       IN StoreBoth(s.src, s.dst) /\ logs' = s.logs
    /\ pc' = IF SinglePass(interval) THEN "done" ELSE "retry_wait"
    /\ UNCHANGED <<Queue, Config, fallback, now, ignore_rules, cache_ignore, syncignore_mtime, counter,
                   sync_count, todo, inflight, dir_tasks, src0, dst0, hist, last>>

\* Where a KeyboardInterrupt reaches the try block of run_sync: anywhere in
\* the pass of the sequential engine, in the main thread between the pools
\* of the parallel one, and in the sleep that closes the try block.
InterruptPoint ==
    \/ pc = "wait"
    \/ pc = "reset"
    \/ RaisePoint
    \/ engine = "seq" /\ pc \in {"plan", "reap"}

\* run_sync's "except KeyboardInterrupt": the line, the save, the break.
Interrupt ==
    /\ InterruptPoint
    /\ <<"interrupt", Root>> \in faults
    /\ LET s == Save(src, dst, Append(logs, <<"INTERRUPTED">>), SaveFaults(faults), now)
       IN StoreBoth(s.src, s.dst) /\ logs' = s.logs
    /\ pc' = "done"
    /\ UNCHANGED <<Queue, Config, fallback, now, ignore_rules, cache_ignore, syncignore_mtime, counter,
                   sync_count, todo, inflight, dir_tasks, src0, dst0, hist, last>>

\* A KeyboardInterrupt in the sleep of the "except Exception" handler: no
\* clause of run_sync or of main catches it, the program ends with it.
InterruptRetry ==
    /\ pc = "retry_wait"
    /\ <<"interrupt", Root>> \in faults
    /\ pc' = "crashed"
    /\ UNCHANGED <<Queue, Config, fallback, src, dst, disk, now, ignore_rules, cache_ignore, syncignore_mtime,
                   logs, counter, sync_count, todo, inflight, dir_tasks, src0, dst0,
                   hist, last>>

----------------------------------------------------------------------------
(* The trees, rules and faults the runs start from *)

MaxWorkers == 2

MaxFaults == 1

\* Modification times in ticks: an old file, a current one, a newer one,
\* the directories, and the clock when the run starts.
MTime == [old |-> 1 * Res, cur |-> 10 * Res, new |-> 20 * Res, dir |-> 5 * Res,
          start |-> 30 * Res]

V1 == << <<"v1">> >>
V2 == << <<"v2">> >>
OldLog == << <<"A", "a.txt">>, <<"SUMMARY">> >>
StaleLog == << <<"D", "a.txt">> >>

PA == <<"a.txt">>
PKeep == <<"keep">>
PReal == <<"keep", "real.txt">>
PIgn == <<"keep", "ign">>
PX == <<"keep", "ign", "x.txt">>
PAb == <<".git", "objects", "ab">>
PGood == <<".git", "objects", "ab", GoodObj>>
PBad == <<".git", "objects", "ab", BadObj>>

F(p, c, m) == [path |-> p, content |-> c, mtime |-> m]

\* The tree holding the files fs and the directories ds, with every
\* directory above them.
Tree(fs, ds) ==
    [p \in Universe |->
        IF \E f \in fs : f.path = p
        THEN LET f == CHOOSE f \in fs : f.path = p IN FileEntry(f.content, f.mtime)
        ELSE IF p = Root \/ (\E f \in fs : IsPrefix(p, f.path)) \/ (\E d \in ds : IsPrefix(p, d))
        THEN DirEntry(MTime.dir)
        ELSE NoEntry]

RuleDir == << <<"#", "generated">>, <<>>, <<"keep", "/", "ign", "/">> >>
RuleQuestion == << <<"keep", "/", "ign", "?">> >>
RuleAnyDepth == << <<"*", "*", "/", "a.txt">> >>
RuleDirAndLog == RuleDir \o << <<LogName>> >>
RuleAnyDepthDir == << <<"*", "*", "/", "keep", "/">> >>
RuleSlash == << <<"a.txt", "/">> >>
RuleObj == << <<".git", "/", "objects", "/", "ab", "/", BadObj>> >>

WithRules(fs, lines) == fs \cup {F(IgnorePath, lines, MTime.cur)}

\* Source files, target files, target directories.
Scenarios ==
    { \* the target holds an ignored directory the source does not have
      [src |-> WithRules({F(PA, V1, MTime.cur), F(PReal, V1, MTime.cur)}, RuleDir),
       dst |-> {F(PA, V2, MTime.old), F(PX, V2, MTime.old)}, dirs |-> {}],
      \* the directory above the ignored one is not in the source either
      [src |-> WithRules({F(PA, V1, MTime.cur)}, RuleDirAndLog),
       dst |-> {F(PA, V1, MTime.cur), F(PReal, V1, MTime.cur), F(PX, V2, MTime.old),
                F(LogPath, OldLog, MTime.old)},
       dirs |-> {}],
      \* an empty target
      [src |-> WithRules({F(PA, V1, MTime.cur), F(PReal, V1, MTime.cur),
                          F(PX, V1, MTime.cur)}, RuleDir),
       dst |-> {}, dirs |-> {}],
      \* an object store, its files changed in the source
      [src |-> {F(PGood, V1, MTime.cur), F(PBad, V1, MTime.cur)},
       dst |-> {F(PGood, V2, MTime.old), F(PBad, V2, MTime.old)}, dirs |-> {}],
      \* an object store directory holding one file, and files only the target has
      [src |-> {F(PGood, V1, MTime.cur), F(PA, V1, MTime.cur)},
       dst |-> {F(PGood, V2, MTime.old), F(PA, V2, MTime.new), F(PReal, V1, MTime.cur)},
       dirs |-> {}],
      \* an object file the target alone has beside one both have
      [src |-> {F(PGood, V1, MTime.cur)},
       dst |-> {F(PGood, V2, MTime.old), F(PBad, V2, MTime.old)}, dirs |-> {}],
      \* an object file of the same content on both sides, the source's newer
      [src |-> {F(PGood, V1, MTime.cur)},
       dst |-> {F(PGood, V1, MTime.old)}, dirs |-> {}],
      \* an object directory of the source whose one file is ignored, and in
      \* the target an object file of that directory the source does not have
      [src |-> WithRules({F(PBad, V1, MTime.cur)}, RuleObj),
       dst |-> {F(PGood, V2, MTime.old)}, dirs |-> {}],
      \* an object directory of the target with one file, which the source
      \* has changed, and a new object file of the source beside it
      [src |-> {F(PGood, V1, MTime.cur), F(PBad, V1, MTime.cur)},
       dst |-> {F(PGood, V2, MTime.old)}, dirs |-> {}],
      \* object files only the target has
      [src |-> {F(PA, V1, MTime.cur)},
       dst |-> {F(PGood, V2, MTime.old), F(PBad, V2, MTime.old)}, dirs |-> {}],
      \* a directory of the target where the source has a file
      [src |-> {F(PA, V1, MTime.cur), F(PReal, V1, MTime.cur)},
       dst |-> {F(PReal, V1, MTime.new)}, dirs |-> {PA}],
      \* a rule for a directory of a name that is a file in the source and a
      \* directory in the target
      [src |-> WithRules({F(PA, V1, MTime.cur)}, RuleSlash),
       dst |-> {F(<<"a.txt", "a.txt">>, V2, MTime.old)}, dirs |-> {}],
      \* a rule that matches a directory and not what is in it, and an empty
      \* directory the source does not have
      [src |-> WithRules({F(PReal, V1, MTime.cur), F(PX, V1, MTime.cur)}, RuleQuestion),
       dst |-> {F(PReal, V1, MTime.cur), F(PX, V2, MTime.old)}, dirs |-> {PA}],
      \* logs on both sides, rules with the any-depth prefix
      [src |-> WithRules({F(PA, V1, MTime.cur), F(PReal, V1, MTime.cur),
                          F(LogPath, StaleLog, MTime.old)}, RuleAnyDepth),
       dst |-> {F(PA, V2, MTime.old), F(PReal, V2, MTime.new),
                F(LogPath, OldLog, MTime.cur)},
       dirs |-> {}],
      [src |-> WithRules({F(PA, V1, MTime.cur), F(PReal, V1, MTime.cur)}, RuleAnyDepthDir),
       dst |-> {F(PReal, V2, MTime.old), F(PX, V2, MTime.old)}, dirs |-> {}] }

\* The operations that may raise, on paths the scenario has.
FaultCandidates(sc) ==
    { flt \in { <<"copy", PA>>, <<"copy", PGood>>, <<"remove", PGood>>, <<"remove", PX>>,
                <<"rmtree", PAb>>, <<"rmtree", Root>>, <<"stat", PA>> } :
        \/ flt[2] = Root
        \/ \E f \in sc.src \cup sc.dst : f.path = flt[2] \/ Parent(f.path) = flt[2] }

\* The two roots as two directories of one above, and nothing in disk.
RootsApart ==
    /\ source_root = <<"source">>
    /\ sync_root = <<"sync">>
    /\ disk = EmptyTree

Modes == {"date", "file", "reset"}

Factors == {1, 1000}

\* The user edits, removes or writes the ignore file while run_sync sleeps.
EditIgnore ==
    /\ pc = "wait"
    /\ <<"edit", IgnorePath>> \in faults
    /\ src[IgnorePath] = src0[IgnorePath]
    /\ \E e \in {NoEntry} \cup
                 { [kind |-> "file", content |-> c, mtime |-> t] :
                     c \in {RuleDir, <<>>}, t \in {now, MTime.old} } :
          /\ e # src[IgnorePath]
          /\ src' = [src EXCEPT ![IgnorePath] = e]
    /\ UNCHANGED <<Queue, Config, fallback, dst, disk, now, ignore_rules, cache_ignore, syncignore_mtime,
                   logs, counter, sync_count, pc, todo, inflight, dir_tasks, src0, dst0,
                   hist, last>>

\* The ignore file, whose reading had failed, can be read again: the cause
\* of the IOError goes away while run_sync sleeps.
Readable ==
    /\ pc = "wait"
    /\ <<"read", IgnorePath>> \in faults
    /\ faults' = faults \ {<<"read", IgnorePath>>}
    /\ UNCHANGED <<Queue, engine, mode, delete, time_factor, max_workers, interval,
                   source_root, sync_root, fallback, src, dst, disk, now, ignore_rules,
                   cache_ignore, syncignore_mtime, logs, counter, sync_count, pc, todo,
                   inflight, dir_tasks, src0, dst0, hist, last>>

\* What the surroundings of the run do to it: an exception in the pass, a
\* KeyboardInterrupt, an edit of the ignore file between two passes, a
\* failure of the reload of the rules with an exception that is not an
\* IOError, a failure of the copy of the log to the source root, an IOError
\* in the reading of the ignore file.
EnvChoices ==
    { {}, {<<"pass", Root>>}, {<<"interrupt", Root>>},
      {<<"pass", Root>>, <<"interrupt", Root>>},
      {<<"edit", IgnorePath>>}, {<<"edit", IgnorePath>>, <<"reload", IgnorePath>>},
      {<<"mirror", LogPath>>}, {<<"read", IgnorePath>>} }

Init ==
    \E sc \in Scenarios, eng \in {"seq", "par"}, md \in Modes, del \in BOOLEAN,
       f \in Factors, w \in 1..MaxWorkers, iv \in {0, 1} :
      \E flt \in SUBSET FaultCandidates(sc), env \in EnvChoices :
        /\ env # {} => flt = {} /\ ~del /\ f = 1 /\ w = 1
        /\ <<"edit", IgnorePath>> \in env => iv > 0
        /\ eng = "seq" => w = 1
        \* the runs of more than one worker make a single pass
        /\ w > 1 => iv = 0
        /\ md # "date" => f = 1
        /\ Cardinality(flt) <= MaxFaults
        /\ <<"rmtree", Root>> \in flt => md = "reset"
        /\ engine = eng /\ mode = md /\ delete = del /\ time_factor = f
        /\ max_workers = w /\ interval = iv /\ faults = flt \cup env
        /\ src = Tree(sc.src, {})
        /\ dst = Tree(sc.dst, sc.dirs)
        /\ now = MTime.start
        /\ ignore_rules = <<>>
        /\ cache_ignore = EmptyCache
        /\ syncignore_mtime = 0
        /\ logs = <<>>
        /\ counter = ZeroCounter
        /\ sync_count = 0
        /\ pc = "idle"
        /\ todo = <<>>
        /\ inflight = {}
        /\ fallback = {}
        /\ dir_tasks = <<>>
        /\ src0 = Tree(sc.src, {})
        /\ dst0 = Tree(sc.dst, sc.dirs)
        /\ hist = <<>>
        /\ last = ZeroCounter
        /\ RootsApart
        /\ QueueIdle

Next ==
    \/ StartPass
    \/ SeqPlanStep
    \/ SeqBeginReap
    \/ SeqReapStep
    \/ ParCollectSync
    \/ ParTake
    \/ ParSyncFileTask
    \/ ParFallback
    \/ ParCollectDelete
    \/ ParDeleteTask
    \/ ParDeleteDir
    \/ ParEndReap
    \/ Reset
    \/ FinishPass
    \/ PassRaises
    \/ Interrupt
    \/ InterruptRetry
    \/ EditIgnore
    \/ Readable

Spec == Init /\ [][Next]_vars

TypeOK ==
    /\ WellFormed(src) /\ WellFormed(dst)
    /\ pc \in {"idle", "plan", "reap", "collect", "copy", "del_files", "reset",
               "finish", "wait", "retry_wait", "done", "crashed"}

----------------------------------------------------------------------------
(* compare_files in date mode on two files of chosen modification times *)

\* Modification times around one and two seconds and around one and two
\* ticks, and factors on both sides of the 1e3 of compare_by_date.
CmpTicks == {0, 1, 2, 3, Res - 1, Res, Res + 1, 2 * Res - 1, 2 * Res, 2 * Res + 1, 3 * Res}

CmpFactors == {1, 2, Res, 2 * Res}

InitCmp ==
    \E eng \in {"seq", "par"}, f \in CmpFactors, t1 \in CmpTicks, t2 \in CmpTicks :
        /\ engine = eng /\ mode = "date" /\ delete = FALSE /\ time_factor = f
        /\ max_workers = 1 /\ interval = 0 /\ faults = {}
        /\ src = Tree({F(PA, V1, t1)}, {})
        /\ dst = Tree({F(PA, V2, t2)}, {})
        /\ now = MTime.start
        /\ ignore_rules = <<>>
        /\ cache_ignore = EmptyCache
        /\ syncignore_mtime = 0
        /\ logs = <<>>
        /\ counter = ZeroCounter
        /\ sync_count = 0
        /\ pc = "idle"
        /\ todo = <<>>
        /\ inflight = {}
        /\ fallback = {}
        /\ dir_tasks = <<>>
        /\ src0 = Tree({F(PA, V1, t1)}, {})
        /\ dst0 = Tree({F(PA, V2, t2)}, {})
        /\ hist = <<>>
        /\ last = ZeroCounter
        /\ RootsApart
        /\ QueueIdle

\* One call of compare_files(src_file, dst_file), its answer recorded.
Compare ==
    /\ pc = "idle"
    /\ pc' = "done"
    /\ hist' = <<Event("compare", PA,
                       IF CompareFiles(engine, mode, time_factor, src, dst, PA, faults)
                       THEN "same" ELSE "different", "none")>>
    /\ UNCHANGED <<Queue, Config, fallback, src, dst, disk, now, ignore_rules, cache_ignore, syncignore_mtime,
                   logs, counter, sync_count, todo, inflight, dir_tasks, src0, dst0, last>>

SpecCmp == InitCmp /\ [][Compare]_vars

----------------------------------------------------------------------------
(* compare_by_hash on two files of chosen contents *)

\* Contents of equal and of different sizes.
HashContents == {<<>>, V1, V2, V1 \o V2, V2 \o V1, OldLog}

InitHash ==
    \E eng \in {"seq", "par"}, c1 \in HashContents, c2 \in HashContents,
       flt \in SUBSET {<<"read", PA>>, <<"read_target", PA>>} :
        /\ engine = eng /\ mode = "file" /\ delete = FALSE /\ time_factor = 1
        /\ max_workers = 1 /\ interval = 0 /\ faults = flt
        /\ src = Tree({F(PA, c1, MTime.cur)}, {})
        /\ dst = Tree({F(PA, c2, MTime.cur)}, {})
        /\ now = MTime.start
        /\ ignore_rules = <<>>
        /\ cache_ignore = EmptyCache
        /\ syncignore_mtime = 0
        /\ logs = <<>>
        /\ counter = ZeroCounter
        /\ sync_count = 0
        /\ pc = "idle"
        /\ todo = <<>>
        /\ inflight = {}
        /\ fallback = {}
        /\ dir_tasks = <<>>
        /\ src0 = Tree({F(PA, c1, MTime.cur)}, {})
        /\ dst0 = Tree({F(PA, c2, MTime.cur)}, {})
        /\ hist = <<>>
        /\ last = ZeroCounter
        /\ RootsApart
        /\ QueueIdle

\* One call of FileComparer.compare_by_hash(file1, file2), its answer
\* recorded.
Hash ==
    /\ pc = "idle"
    /\ pc' = "done"
    /\ hist' = <<Event("hash", PA,
                       IF CompareByHash(src, PA, faults, dst, PA)
                       THEN "same" ELSE "different", "none")>>
    /\ UNCHANGED <<Queue, Config, fallback, src, dst, disk, now, ignore_rules, cache_ignore, syncignore_mtime,
                   logs, counter, sync_count, todo, inflight, dir_tasks, src0, dst0, last>>

SpecHash == InitHash /\ [][Hash]_vars

----------------------------------------------------------------------------
(* Runs in which one root is inside the other *)

PT == <<"t">>
PTA == <<"t", "a.txt">>

\* The roots main accepts although one is inside the other, and the files
\* of the one tree: the target is the directory t of the source, empty or
\* with an older copy, or the source is the directory t of the target.
NestedRoots ==
    { [source_root |-> Root, sync_root |-> PT, files |-> {F(PA, V1, MTime.cur)}],
      [source_root |-> Root, sync_root |-> PT,
       files |-> {F(PA, V1, MTime.cur), F(PTA, V2, MTime.old)}],
      [source_root |-> PT, sync_root |-> Root, files |-> {F(PTA, V1, MTime.cur)}],
      [source_root |-> PT, sync_root |-> Root,
       files |-> {F(PTA, V1, MTime.cur), F(PA, V2, MTime.old)}] }

\* os.makedirs and shutil.copy2 raise for a place whose name is too long.
NameFaults(r) == { <<op, p>> : op \in {"mkdir", "copy"}, p \in TooLong(r) }

InitNest ==
    \E nr \in NestedRoots, eng \in {"seq", "par"}, md \in Modes, del \in BOOLEAN :
        /\ engine = eng /\ mode = md /\ delete = del /\ time_factor = 1
        /\ max_workers = 1 /\ interval = 0 /\ faults = NameFaults(nr.sync_root)
        /\ source_root = nr.source_root
        /\ sync_root = nr.sync_root
        /\ disk = Tree(nr.files, {PT})
        /\ src = View(disk, source_root)
        /\ dst = View(disk, sync_root)
        /\ now = MTime.start
        /\ ignore_rules = <<>>
        /\ cache_ignore = EmptyCache
        /\ syncignore_mtime = 0
        /\ logs = <<>>
        /\ counter = ZeroCounter
        /\ sync_count = 0
        /\ pc = "idle"
        /\ todo = <<>>
        /\ inflight = {}
        /\ fallback = {}
        /\ dir_tasks = <<>>
        /\ src0 = src
        /\ dst0 = dst
        /\ hist = <<>>
        /\ last = ZeroCounter
        /\ QueueIdle

NextNest ==
    \/ StartPass
    \/ SeqPlanStep
    \/ SeqBeginReap
    \/ SeqReapStep
    \/ ParCollectSync
    \/ ParTake
    \/ ParSyncFileTask
    \/ ParCollectDelete
    \/ ParDeleteTask
    \/ ParDeleteDir
    \/ ParEndReap
    \/ Reset
    \/ FinishPass

SpecNest == InitNest /\ [][NextNest]_vars

----------------------------------------------------------------------------
(* What the properties speak of *)

\* The planner and the reaper of a pass of date or file mode have run and
\* the log has not been saved yet.
PassDone == pc = "finish" /\ mode # "reset"

\* No operation of the pass has failed: nothing is counted as failed, and
\* no os.remove of the guard of the object store has raised (its Warning
\* line).
NoFailure ==
    /\ counter.failed = 0
    /\ \A i \in 1..Len(logs) : logs[i] = <<>> \/ logs[i][1] # "Warning"

\* The rules hold of the source path p or of a directory above it.
SourceIgnored(p) ==
    \E q \in Prefixes(p) \ {Root} : MatchesAnyRule(ignore_rules, src0, q)

\* The lines the current pass has logged: those after its header.
RECURSIVE PassLines(_)
PassLines(buf) ==
    IF buf = <<>> THEN <<>>
    ELSE IF \E i \in 1..Len(buf) : buf[i] = <<"=====">>
    THEN PassLines(Tail(buf))
    ELSE buf

CountLines(buf, line) == Cardinality({ i \in 1..Len(buf) : buf[i] = line })

\* The lines of the codes A, M and D.
ActionLines(buf) == { i \in 1..Len(buf) : buf[i][1] \in {"A", "M", "D"} }

LinesAbout(buf, p) ==
    { i \in 1..Len(buf) : Len(buf[i]) >= 2 /\ buf[i][1] \in {"A", "M", "D", "ERROR"}
                          /\ \E k \in 2..Len(buf[i]) : SubSeq(buf[i], k, Len(buf[i])) = PathStr(p) }

NewFiles == { p \in Files(src0) : ~SourceIgnored(p) /\ ~Exists(dst0, p) }

CommonFiles == { p \in Files(src0) : ~SourceIgnored(p) /\ IsFile(dst0, p) }

Differs(p) == ~CompareFiles(engine, mode, time_factor, src0, dst0, p, faults)

\* How often the pass counted the action for the path, and in all.
Outcomes(p, action) ==
    Cardinality({ i \in 1..Len(hist) : hist[i].path = p /\ hist[i].action = action })

Counted(action) == Cardinality({ i \in 1..Len(hist) : hist[i].action = action })

\* The reaper is about to classify: the sequential walk is under way, or
\* the parallel engine is about to collect its delete tasks.
Reaping ==
    \/ pc = "reap"
    \/ pc = "copy" /\ todo = <<>> /\ inflight = {}

\* The rules hold of the target path p, as the tree fs has it.
TargetIgnored(fs, p) == MatchesAnyRule(ignore_rules, fs, p)

\* A directory above p, below the root, that the source does not have and
\* that is not ignored.
HasRedundantAncestor(sfs, dfs, p) ==
    \E a \in Range(Ancestors(p)) : ~Exists(sfs, a) /\ ~TargetIgnored(dfs, a)

HasIgnoredAncestor(dfs, p) ==
    \E a \in Range(Ancestors(p)) : TargetIgnored(dfs, a)

Classified(p) == IsRedundant(cache_ignore, ignore_rules, delete, src, dst, p).val

\* A pass is under way: hist and the buffered lines are those of this pass.
InPass == pc \in {"plan", "reap", "collect", "copy", "del_files", "finish"}

\* The events of the pass in which the guard of the object store was called
\* and gave the answer.
GuardEvents(answer) == { i \in 1..Len(hist) : hist[i].guard = answer }

LoggedFor(code, p) == CountLines(PassLines(logs), LogLine(code, PathStr(p)))

\* A pass of reset mode has rebuilt the target and saved the log.
ResetDone ==
    /\ mode = "reset" /\ pc \in {"wait", "done"}
    /\ hist # <<>> /\ hist[Len(hist)].action = "reset"

\* compare_files has answered for a.txt; the answer, and how much newer the
\* source is than the target, in ticks.
Compared == pc = "done" /\ hist # <<>> /\ hist[1].phase = "compare"

Same == hist[1].action = "same"

SourceNewerBy == src[PA].mtime - dst[PA].mtime

\* The lines of the log of the target when the pass began.
OldLogLines == IF IsFile(dst0, LogPath) THEN dst0[LogPath].content ELSE <<>>

----------------------------------------------------------------------------
(* Properties *)

\* C1: after a pass of date or file mode in which nothing failed, every
\* source file that is not ignored, has no ignored directory above it and
\* was not in the target is a file of the target with the source's content,
\* has one A line in the pass's log, and added counts exactly these files.
C1_AddedFiles ==
    PassDone /\ NoFailure =>
        /\ \A p \in NewFiles :
              /\ IsFile(dst, p)
              /\ dst[p].content = src[p].content
              /\ CountLines(PassLines(logs), LogLine("A", PathStr(p))) = 1
        /\ counter.added = Cardinality(NewFiles)

C1_Witness ==
    PassDone /\ NoFailure /\ Cardinality(NewFiles) >= 2 /\ counter.added >= 2

\* C2: after a pass of date or file mode in which nothing failed, every
\* file in both trees that is not ignored and that the comparison of the
\* mode reports different has the source's content in the target and one M
\* line and is counted once as modified; a pair reported the same has no
\* line of the log, is counted nowhere and the target file is as it was.
C2_ModifiedFiles ==
    PassDone /\ NoFailure =>
        /\ \A p \in CommonFiles :
              IF Differs(p)
              THEN /\ IsFile(dst, p)
                   /\ dst[p].content = src[p].content
                   /\ CountLines(PassLines(logs), LogLine("M", PathStr(p))) = 1
                   /\ Outcomes(p, "modified") = 1
              ELSE /\ dst[p] = dst0[p]
                   /\ LinesAbout(PassLines(logs), p) = {}
                   /\ \A a \in {"added", "modified", "error", "deleted_files"} :
                         Outcomes(p, a) = 0
        /\ counter.modified = Counted("modified")

C2_Witness ==
    /\ PassDone /\ NoFailure
    /\ \E p \in CommonFiles : Differs(p) /\ dst0[p].content # src0[p].content
    /\ \E p \in CommonFiles : ~Differs(p) /\ dst0[p].content # src0[p].content

\* C3: a second pass after a pass without failure, the source unchanged,
\* adds, modifies and deletes nothing: its added, modified, deleted_files
\* and deleted_dirs are zero and it logs no A, M or D line.
C3_Idempotent ==
    PassDone /\ sync_count = 2 /\ last.failed = 0 =>
        /\ counter.added = 0 /\ counter.modified = 0
        /\ counter.deleted_files = 0 /\ counter.deleted_dirs = 0
        /\ ActionLines(PassLines(logs)) = {}


\* C4: with the delete flag off, the reaper classifies an ignored entry of
\* the target as redundant exactly when a directory above it, below the
\* root, is not in the source and is not ignored; and after a pass in which
\* nothing failed the ignored entries the target had are gone in that case
\* and still there otherwise.
C4_IgnoreInheritance ==
    /\ Reaping /\ ~delete =>
          \A p \in Universe \ {Root} :
              Exists(dst, p) /\ TargetIgnored(dst, p) =>
                  (Classified(p) <=> HasRedundantAncestor(src, dst, p))
    /\ PassDone /\ ~delete /\ NoFailure =>
          \A p \in Universe \ {Root} :
              Exists(dst0, p) /\ TargetIgnored(dst0, p) =>
                  (Exists(dst, p) <=> ~HasRedundantAncestor(src0, dst0, p))

C4_Witness ==
    /\ PassDone /\ ~delete /\ NoFailure
    /\ \E p \in Universe :
          /\ Len(p) = 3 /\ Exists(dst0, p) /\ TargetIgnored(dst0, p)
          /\ TargetIgnored(dst0, Parent(p))
          /\ HasRedundantAncestor(src0, dst0, p)
          /\ ~Exists(dst, p) /\ ~Exists(dst, Parent(p))

AnsweredIgnored(p) == IsIgnore(cache_ignore, ignore_rules, dst, p).val

C6_RefusesOtherNames ==
    InPass =>
      \A i \in 1..Len(hist) :
        LET e == hist[i]
        IN (e.guard # "none" /\ InGitObjects(e.path)
            /\ ~IsGitObjectName(BaseName(e.path)))
           => /\ e.guard = "false"
              /\ dst[e.path] = dst0[e.path]
              /\ \E k \in LinesAbout(PassLines(logs), e.path) :
                    PassLines(logs)[k][1] = "ERROR"

\* C7: when the guard answers false the path is counted as failed, once,
\* and nothing else: the planner does not copy the source file over the
\* target and logs no M line, the reaper logs no D line and counts no
\* deletion, and the target entry is as it was.
C7_RefusalAbandons ==
    InPass =>
      /\ \A i \in GuardEvents("false") :
            LET p == hist[i].path
            IN /\ hist[i].action = "error"
               /\ Outcomes(p, "error") = 1
               /\ Outcomes(p, "modified") = 0 /\ Outcomes(p, "added") = 0
               /\ Outcomes(p, "deleted_files") = 0
               /\ LoggedFor("M", p) = 0 /\ LoggedFor("D", p) = 0
               /\ dst[p] = dst0[p]
      /\ counter.failed = Counted("error")
      /\ counter.modified = Counted("modified")
      /\ counter.deleted_files = Counted("deleted_files")

\* C7's case: in one pass the guard has refused a file of the planner and a
\* file of the reaper.
C7_Witness ==
    /\ pc = "finish"
    /\ \E i, j \in GuardEvents("false") :
          hist[i].phase = "plan" /\ hist[j].phase = "reap"

\* C8: after a pass of reset mode that did not fail, the files of the
\* target other than the log are the source files that are not ignored and
\* have no ignored directory above them, with the source's content, and
\* the log holds the lines it had before the pass and a RESET line after them.
C8_ResetMirror ==
    ResetDone =>
      /\ Files(dst) \ {LogPath} = { p \in Files(src0) \ {LogPath} : ~SourceIgnored(p) }
      /\ \A p \in Files(dst) \ {LogPath} : dst[p].content = src0[p].content
      /\ IsFile(dst, LogPath)
      /\ LET new == dst[LogPath].content
         IN /\ IsPrefix(OldLogLines, new)
            /\ \E k \in (Len(OldLogLines) + 1)..Len(new) : new[k][1] = "RESET"

\* C8's case: the target had a log and a file the reset removed, and the
\* source has an ignored file.
C8_Witness ==
    /\ ResetDone
    /\ OldLogLines # <<>>
    /\ \E p \in Files(src0) : SourceIgnored(p)
    /\ \E p \in Files(dst0) : ~Exists(dst, p)

\* What Sync.sync_directory makes of the trees the pass began with.
SequentialPlan ==
    SyncDirectory([dst |-> dst0, cache |-> EmptyCache, logs |-> <<>>,
                   counter |-> ZeroCounter, hist |-> <<>>, todo |-> ListDir(src0, Root)])

\* sync_directory_parallel has run every task of the first pass.
ParallelPlanDone ==
    engine = "par" /\ sync_count = 1 /\ pc = "copy" /\ todo = <<>> /\ inflight = {}

\* C9: when the parallel engine has run its copy tasks, with any number of
\* workers and in any order, added, modified and failed are what the
\* sequential planner counts on the same trees in the same mode.
C9_SameCounters ==
    ParallelPlanDone =>
      /\ counter.added = SequentialPlan.counter.added
      /\ counter.modified = SequentialPlan.counter.modified
      /\ counter.failed = SequentialPlan.counter.failed

\* C10 as the specification has it: in date mode with factor f, modification
\* times less than 1/f seconds apart compare equal, and 1/f seconds or more
\* apart compare different.
C10_AsStated ==
    Compared =>
      /\ time_factor * Abs(SourceNewerBy) < Res => Same
      /\ time_factor * Abs(SourceNewerBy) >= Res => ~Same

\* C10 as the code has it: the parallel engine compares equal exactly when
\* the times are at most 2/f seconds apart; the sequential engine compares
\* equal when the target is not older than the source, and when f >= 1000
\* and the source is newer by less than 1/f seconds, and different when the
\* source is newer by more than 2/f seconds.
C10_Tolerance ==
    Compared =>
      /\ engine = "par" => (Same <=> time_factor * Abs(SourceNewerBy) <= 2 * Res)
      /\ engine = "seq" =>
            /\ SourceNewerBy <= 0 => Same
            /\ (time_factor >= 1000 /\ time_factor * SourceNewerBy < Res) => Same
            /\ time_factor * SourceNewerBy > 2 * Res => ~Same

\* C10's case: times between 1/f and 2/f seconds apart that the parallel
\* engine has compared equal.
C10_Witness ==
    /\ Compared /\ engine = "par" /\ Same
    /\ time_factor * Abs(SourceNewerBy) >= Res
    /\ time_factor * Abs(SourceNewerBy) <= 2 * Res

\* C11: in date mode a file of both trees whose target copy is not older
\* than the source's is never copied again, however much newer it is.
C11_NewerTargetKept ==
    (InPass /\ mode = "date") =>
      \A p \in CommonFiles :
        dst0[p].mtime >= src0[p].mtime => Outcomes(p, "modified") = 0

\* The step is the reaper's turn on the directory p of the target: it adds
\* an event of the reaper for p, which the target holds as a directory.
ReapsDir(p) ==
    /\ IsDir(dst, p) /\ p # Root
    /\ Len(hist') = Len(hist) + 1
    /\ hist'[Len(hist')].phase = "reap" /\ hist'[Len(hist')].path = p

ReaperStep ==
    \/ pc \in {"reap", "del_files"} /\ pc' \in {"reap", "del_files", "finish"}
    \/ pc = "copy" /\ pc' = "del_files"

\* C13: no step of the reaper touches the log file of the target root or
\* takes it as an entry to delete, whatever the rules and the delete flag
\* are and whether the source has a log or not.
C13_LogNeverReaped ==
    [][ReaperStep =>
          /\ dst'[LogPath] = dst[LogPath]
          /\ \A i \in 1..Len(hist') : hist'[i].phase = "reap" => hist'[i].path # LogPath
          /\ \A it \in Range(todo') \cup inflight' :
                (engine = "par" /\ pc' = "del_files") => it.path # LogPath]_vars

\* C13's case: the reaper is through, with the delete flag on, a rule that
\* matches the log and no log in the source; it has deleted files and the
\* log of the target is as it was.
C13_Witness ==
    /\ pc = "finish" /\ mode # "reset" /\ delete
    /\ IsFile(dst0, LogPath) /\ ~Exists(src0, LogPath)
    /\ TargetIgnored(dst, LogPath)
    /\ counter.deleted_files >= 1
    /\ dst[LogPath] = dst0[LogPath]

\* An ERROR line of the pass names the path.
ErrorLogged(p) ==
    \E k \in LinesAbout(PassLines(logs), p) : PassLines(logs)[k][1] = "ERROR"

\* The events of the pass of the phase for the path.
EventsOf(phase, p) == { i \in 1..Len(hist) : hist[i].phase = phase /\ hist[i].path = p }

\* Every failure of the pass is logged and counted once, and no file was
\* left out because of it: each source file that is not ignored has had its
\* turn with the planner, each file still in the target that the reaper
\* holds redundant has had its turn with the reaper.
FailuresContained ==
    /\ \A i \in 1..Len(hist) :
          hist[i].action = "error" =>
             ErrorLogged(hist[i].path) /\ Outcomes(hist[i].path, "error") = 1
    /\ counter.failed = Counted("error")
    /\ \A q \in Files(src0) : ~SourceIgnored(q) => Cardinality(EventsOf("plan", q)) = 1
    /\ \A q \in Files(dst) \ {LogPath} :
          Classified(q) => Cardinality(EventsOf("reap", q)) = 1

\* The files of both trees whose comparison raises.
CompareRaises == { p \in CommonFiles : <<"stat", p>> \in faults }

----------------------------------------------------------------------------
(* The loop of run_sync *)

\* The last line of the log file of the target, <<>> when it has none.
LastSaved ==
    IF Exists(dst, LogPath) /\ dst[LogPath].content # <<>>
    THEN dst[LogPath].content[Len(dst[LogPath].content)]
    ELSE <<>>

Ended == pc \in {"done", "crashed"}

\* C15: with an interval that is not positive the run makes exactly one pass
\* and ends: whether the pass succeeded, raised an exception or was
\* interrupted, the loop is left after it, with no wait and no second pass.
C15_SinglePass ==
    interval <= 0 =>
        /\ sync_count <= 1
        /\ pc \notin {"wait", "retry_wait"}
        /\ Ended => sync_count = 1

\* A single pass that raised: the error line is the last one saved and the
\* run has ended.
C15_Witness ==
    /\ interval <= 0 /\ pc = "done" /\ sync_count = 1
    /\ LastSaved = <<"PASS_ERROR">>

\* C16: with a positive interval an exception raised anywhere in a pass, the
\* reload of the ignore rules at its start included, is caught and logged
\* and does not end the loop: short of a user's interrupt the run never ends,
\* and a pass that raised has its error line saved before the retry wait.
C16_ExceptionsRetried ==
    (interval > 0 /\ <<"interrupt", Root>> \notin faults) =>
        /\ ~Ended
        /\ pc = "retry_wait" => LastSaved = <<"PASS_ERROR">>

\* The run ends while it sleeps: no pass is started by the step.
EndsInWait ==
    /\ pc \in {"wait", "retry_wait"}
    /\ pc' \in {"done", "crashed"}
    /\ sync_count' = sync_count

\* C17: a cancellation during any wait, the wait between two passes as well
\* as the retry wait after a pass that raised, is logged as an interruption,
\* the buffer is flushed and the loop ends cleanly.
C17_WaitInterrupt ==
    [][EndsInWait =>
         /\ pc' = "done"
         /\ LastSaved' = <<"INTERRUPTED">>
         /\ logs' = <<>>]_vars

\* The planner has had every source file that is not ignored.
PlannerComplete ==
    \A q \in Files(src0) : ~SourceIgnored(q) => EventsOf("plan", q) # {}

ReaperStarted ==
    \/ pc \in {"reap", "del_files"}
    \/ \E i \in 1..Len(hist) : hist[i].phase = "reap"

ReaperComplete == todo = <<>> /\ inflight = {} /\ dir_tasks = <<>>

\* No event of the planner follows one of the reaper.
PlanBeforeReap ==
    \A i, j \in 1..Len(hist) :
        (i < j /\ hist[i].phase = "reap") => hist[j].phase # "plan"

\* The step saves the buffer of the log outside the two except clauses.
FlushOfPass ==
    /\ logs # <<>> /\ logs' = <<>>
    /\ pc' \in {"wait", "done"}
    /\ LastSaved' \in {<<"EXIT">>, <<"WAIT">>}

\* C18: in a pass of date or file mode the planner runs to completion before
\* the reaper starts, and both have run when the pass saves its log; in
\* reset mode neither of them runs.
C18_PhaseOrder ==
    /\ [](mode # "reset" =>
            /\ ReaperStarted => PlannerComplete
            /\ PlanBeforeReap
            /\ pc = "finish" => (PlannerComplete /\ ReaperComplete))
    /\ [](mode = "reset" =>
            /\ pc \notin {"plan", "reap", "collect", "copy", "del_files"}
            /\ \A i \in 1..Len(hist) : hist[i].phase \notin {"plan", "reap"})
    /\ [][FlushOfPass => pc = "finish"]_vars

\* A pass of date or file mode in which the planner and the reaper have both
\* acted has saved its log.
C18_Witness ==
    /\ mode # "reset" /\ pc \in {"wait", "done"} /\ logs = <<>>
    /\ LastSaved \in {<<"EXIT">>, <<"WAIT">>}
    /\ \E i, j \in 1..Len(hist) : hist[i].phase = "plan" /\ hist[j].phase = "reap"

\* The step is the head of a pass that goes on to its body.
StartsPass == sync_count' = sync_count + 1 /\ pc' # "crashed"

\* The head of the pass has logged that it loaded the rules.
Reloaded == logs' # <<>> /\ logs'[Len(logs')] = <<"RULES_LOADED">>

\* The ignore file is there and newer than the recorded time, which is 0
\* when no file was there at the last load.
FileNewer == Exists(src, IgnorePath) /\ src[IgnorePath].mtime > syncignore_mtime

\* The ignore file that was loaded is no longer there.
FileGone == ~Exists(src, IgnorePath) /\ syncignore_mtime # 0

ReloadEffect ==
    /\ ignore_rules' = GetIgnoreRules(src, faults)
    /\ syncignore_mtime' = IF Exists(src, IgnorePath) THEN src[IgnorePath].mtime ELSE 0
    /\ cache_ignore' = EmptyCache

IgnoreUntouched == UNCHANGED <<ignore_rules, syncignore_mtime, cache_ignore>>

\* C19 as stated: at the start of a pass the rules are reloaded exactly when
\* the ignore file is newer than recorded or is there and was not before;
\* otherwise the rules, the recorded time and the cache stay as they are.
C19_AsStated ==
    [][StartsPass =>
         /\ Reloaded <=> FileNewer
         /\ ~FileNewer => IgnoreUntouched]_vars

\* C19 amended: at the start of a pass the rules are reloaded exactly when
\* the ignore file is newer than recorded (a file that was not there before
\* included) or the file that was loaded is gone, which empties the rules and
\* sets the recorded time to 0; otherwise the rules, the recorded time and
\* the cache stay as they are.
C19_ReloadRule ==
    [][StartsPass =>
         /\ Reloaded <=> (FileNewer \/ FileGone)
         /\ (FileNewer \/ FileGone) => ReloadEffect
         /\ ~(FileNewer \/ FileGone) => IgnoreUntouched]_vars

\* The second pass has reloaded because the ignore file it had loaded was
\* removed: no rules are left.
C19_Witness ==
    /\ sync_count = 2 /\ pc \in {"plan", "collect", "reset"}
    /\ ~Exists(src0, IgnorePath)
    /\ logs # <<>> /\ logs[Len(logs)] = <<"RULES_LOADED">>
    /\ ignore_rules = <<>> /\ syncignore_mtime = 0

\* The event of the reaper is about a directory of the target.
DirEvent(i) == hist[i].phase = "reap" /\ IsDir(dst0, hist[i].path)

FileEvent(i) == hist[i].phase = "reap" /\ ~IsDir(dst0, hist[i].path)

\* C20: in the delete phase of the parallel engine every file task has
\* completed before the first directory is attempted, the directories are
\* attempted one at a time by the main thread, and each directory is
\* attempted before the directory that holds it.
C20_DeleteOrder ==
    /\ [](engine = "par" =>
            \A i, j \in 1..Len(hist) :
               (i < j /\ DirEvent(i)) =>
                  /\ ~FileEvent(j)
                  /\ DirEvent(j) => ~IsPrefix(hist[i].path, hist[j].path))
    /\ [][\A p \in Universe :
            (engine = "par" /\ ReapsDir(p)) =>
               /\ todo = <<>> /\ inflight = {} /\ inflight' = {}
               /\ \A k \in 1..Len(dir_tasks') : ~IsPrefix(p, dir_tasks'[k].path)]_vars

\* The parallel reaper has deleted a file and then attempted a directory and,
\* after it, the directory that holds it.
C20_Witness ==
    /\ engine = "par" /\ pc = "finish"
    /\ \E i, j, k \in 1..Len(hist) :
          /\ i < j /\ j < k
          /\ FileEvent(i) /\ hist[i].action = "deleted_files"
          /\ DirEvent(j) /\ DirEvent(k)
          /\ Parent(hist[j].path) = hist[k].path

\* The lines of the log of the target root in the tree fs.
TargetLog(fs) == IF IsFile(fs, LogPath) THEN fs[LogPath].content ELSE <<>>

\* The step ends with a save of the log that emptied the buffer.
Flushed ==
    /\ pc' # pc /\ pc' \in {"wait", "done", "retry_wait"}
    /\ logs' = <<>>

\* C21: after every save of the log that succeeded the copy of the log in
\* the source root holds exactly the lines of the log in the target root.
C21_MirrorEqual ==
    [][Flushed =>
         /\ IsFile(src', LogPath) /\ IsFile(dst', LogPath)
         /\ src'[LogPath].content = dst'[LogPath].content]_vars

\* The second pass has saved its log, and the source root holds the same
\* lines as the target root, those of both passes.
C21_Witness ==
    /\ sync_count = 2 /\ pc = "wait" /\ logs = <<>>
    /\ LastSaved = <<"WAIT">>
    /\ IsFile(src, LogPath) /\ src[LogPath].content = TargetLog(dst)
    /\ \E i \in 1..Len(TargetLog(dst)) : TargetLog(dst)[i] = <<"START", "1">>

\* The pass has come to its end: the run sleeps or is over.
PassOver == sync_count >= 1 /\ pc \in {"wait", "retry_wait", "done", "crashed"}

\* C22: the log of the target is append-only across a pass: the lines it held
\* when the pass started are still its first lines, in the same order, when
\* the pass is over, in every mode, whether the pass failed or not and
\* whatever log the source root holds.
C22_AppendOnly ==
    PassOver => IsPrefix(TargetLog(dst0), TargetLog(dst))

\* The head of a pass reloads the rules from a file whose reading fails:
\* with an IOError, or with another exception.
ReloadReadFails ==
    /\ sync_count' = sync_count + 1
    /\ FileNewer
    /\ <<"read", IgnorePath>> \in faults \/ <<"reload", IgnorePath>> \in faults

\* C23: when the reading of the ignore file fails at the start of a pass the
\* pass is not aborted: it goes on to its body with no rules, so that no
\* path is ignored in it.
C23_ReadFailure ==
    [][ReloadReadFails => (pc' \in {"plan", "collect", "reset"} /\ ignore_rules' = <<>>)]_vars

\* A directory of the source above the path matches a rule.
UnderIgnoredDir(p) ==
    \E q \in Prefixes(p) \ {Root, p} :
        IsDir(src0, q) /\ MatchesAnyRule(ignore_rules, src0, q)

\* The pass has copied the source file p to the target: the planner added or
\* modified it, or reset_sync has rebuilt the target and the target has it.
CopiedInPass(p) ==
    \/ Outcomes(p, "added") + Outcomes(p, "modified") > 0
    \/ Counted("reset") > 0 /\ Exists(dst, p)

C25_HashTieBreak ==
    \A p \in CommonFiles :
        (mode = "date" /\ InGitObjects(p) /\ Outcomes(p, "modified") > 0) =>
            ~CompareByHash(src0, p, faults, dst0, p)

\* C26: whenever the guard of the object store has answered True for a target
\* file that is to be overwritten, the directory of the file is still there
\* for the copy, which completes and is logged M, also when the guard got
\* there by removing the directory that held the one file.
C26_GuardThenCopy ==
    \A i \in 1..Len(hist) :
        (hist[i].phase = "plan" /\ hist[i].guard = "true"
           /\ <<"copy", hist[i].path>> \notin faults) =>
            hist[i].action = "modified"

\* compare_by_hash has answered for the two files.
Hashed == pc = "done" /\ hist # <<>> /\ hist[1].phase = "hash"

HashSame == hist[1].action = "same"

Unreadable == { x \in faults : x[1] \in {"read", "read_target"} }

\* C27: compare_by_hash reports two files as same only if their sizes are
\* equal and the digests of their whole contents are equal, and never when
\* the content of one of them cannot be read.
C27_HashSame ==
    (Hashed /\ HashSame) =>
        /\ FileSize(src[PA].content) = FileSize(dst[PA].content)
        /\ src[PA].content = dst[PA].content
        /\ Unreadable = {}

\* The ancestors the redundancy decision of the target entry p evaluates.
Visits(p) == ClimbVisits(cache_ignore, ignore_rules, delete, src, dst, p)

BaseRedundant(p) == IsRedundantBase(cache_ignore, ignore_rules, delete, src, dst, p).val

\* The decision of p enters its loop: p is ignored, the flag is off and p is
\* not redundant by itself.
Climbs(p) ==
    /\ Exists(dst, p) /\ ~delete
    /\ IsIgnore(cache_ignore, ignore_rules, dst, p).val
    /\ ~BaseRedundant(p)

\* C28: for every entry below the target root the walk of the redundancy
\* decision over the ancestors ends: it evaluates the ancestors of the entry
\* from the nearest on, stops at the first redundant one or before the
\* target root, and evaluates neither the root nor a path outside it; the
\* entry is redundant exactly when the walk stopped at a redundant ancestor.
C28_ClimbStops ==
    Reaping =>
      \A p \in Universe \ {Root} :
        Climbs(p) =>
          LET v == Visits(p)
          IN /\ Len(v) <= Len(p) - 1
             /\ \A i \in 1..Len(v) : v[i] = SubSeq(p, 1, Len(p) - i) /\ v[i] # Root
             /\ \A i \in 1..Len(v) : BaseRedundant(v[i]) => i = Len(v)
             /\ (v = <<>> \/ ~BaseRedundant(v[Len(v)])) => Len(v) = Len(p) - 1
             /\ IsRedundant(cache_ignore, ignore_rules, delete, src, dst, p).val
                  <=> (v # <<>> /\ BaseRedundant(v[Len(v)]))

\* The reaper is about to decide on an ignored entry whose walk passes a
\* directory that is not redundant and stops at a redundant one above it.
C28_Witness ==
    /\ Reaping
    /\ \E p \in Universe \ {Root} :
          /\ Climbs(p) /\ Len(Visits(p)) = 2
          /\ ~BaseRedundant(Visits(p)[1]) /\ BaseRedundant(Visits(p)[2])

\* How many lines of the code the pass has logged.
CodeLines(code) ==
    Cardinality({ i \in 1..Len(PassLines(logs)) : PassLines(logs)[i][1] = code })

\* C29: at the end of a pass of date or file mode of the parallel engine,
\* however the workers interleave, no update of the log or of the counters is
\* lost: the pass has logged as many A lines as added counts, as many M lines
\* as modified counts, and as many D lines as deleted_files and deleted_dirs
\* count together.
C29_NoLostUpdate ==
    (engine = "par" /\ PassDone) =>
        /\ CodeLines("A") = counter.added
        /\ CodeLines("M") = counter.modified
        /\ CodeLines("D") = counter.deleted_files + counter.deleted_dirs

\* Two workers have added and modified files and deleted what the source
\* does not have.
C29_Witness ==
    /\ engine = "par" /\ max_workers = 2 /\ PassDone
    /\ counter.added >= 1 /\ counter.modified >= 1
    /\ counter.deleted_files >= 1 /\ counter.deleted_dirs >= 1

IsSuffix(a, b) == Len(a) <= Len(b) /\ SubSeq(b, Len(b) - Len(a) + 1, Len(b)) = a

\* C30: whenever the loop of run_sync has ended after a pass had started, by
\* the exit of a single pass, by a cancellation or by an error, every line
\* that was put into the buffer of the log has been written to the log file
\* of the target: what the buffer still holds are the last lines of the file.
C30_NothingBuffered ==
    (Ended /\ sync_count >= 1) => IsSuffix(logs, TargetLog(dst))

\* C31: with the delete flag off, no step of the reaper takes away an entry
\* of the target whose relative path the source has, whether the entry or a
\* directory above it is ignored or not.
C31_KeepsSourceEntries ==
    [][(ReaperStep /\ ~delete) =>
          \A p \in Universe \ {Root} :
              (Exists(dst, p) /\ Exists(src, p)) => Exists(dst', p)]_vars

\* C32: for a source root and a target root main accepts, one inside the
\* other included, no step of a pass in any mode makes, changes or removes a
\* path under the source root other than the copy of the log.
C32_SourceUntouched ==
    [][\A p \in Universe \ {LogPath} : src'[p] = src[p]]_vars

\* The paths the planner has visited or holds to visit in this pass.
PlannerVisits ==
    { hist[i].path : i \in { j \in 1..Len(hist) : hist[j].phase = "plan" } }
        \cup (IF pc \in {"plan", "copy"} THEN Range(todo) \cup inflight ELSE {})

NextQuery ==
    IF engine = "seq" /\ pc = "plan" /\ todo # <<>>
    THEN {<<src, Head(todo)>>}
    ELSE IF engine = "seq" /\ pc = "reap" /\ todo # <<>>
            /\ ~IsSpecialFile(Head(todo)) /\ Exists(dst, Head(todo).path)
    THEN {<<dst, Head(todo).path>>}
    ELSE IF engine = "par" /\ pc = "collect"
    THEN LET names == SortPaths(SubDirs(src, Root)) \o SortPaths(NonDirs(src, Root))
         IN IF names = <<>> THEN {} ELSE {<<src, Head(names)>>}
    ELSE IF engine = "par" /\ pc = "copy" /\ PlannerReturned(todo, inflight)
    THEN LET items == SelectSeq(WalkBottomUp(dst, Root), LAMBDA it : ~IsSpecialFile(it))
         IN IF items = <<>> THEN {} ELSE {<<dst, Head(items).path>>}
    ELSE {}

\* C34: what is_ignore returns for a path is what the rules loaded give for
\* the relative path and for what the path is, file or directory, under the
\* root passed in the call, also when the cache holds a result for the same
\* relative path under the other root.
C34_IgnoreAsEvaluated ==
    \A q \in NextQuery :
        IsIgnore(cache_ignore, ignore_rules, q[1], q[2]).val
            = MatchesAnyRule(ignore_rules, q[1], q[2])

\* The pool of the copy phase of the parallel engine has run every task.
CopyPhaseOver == engine = "par" /\ pc = "copy" /\ todo = <<>> /\ inflight = {}

\* C35: in the copy phase of the parallel engine a file its worker copied
\* and logged A or M is in the target with the content of the source when
\* the phase ends, whatever the other workers did meanwhile, the removal of
\* the file's directory by the fallback of the object store guard included.
C35_TasksIndependent ==
    CopyPhaseOver =>
        \A i \in 1..Len(hist) :
            (hist[i].phase = "plan" /\ hist[i].action \in {"added", "modified"}
               /\ ~IsDir(dst0, hist[i].path)) =>
                /\ IsFile(dst, hist[i].path)
                /\ dst[hist[i].path].content = src[hist[i].path].content

\* How often the header line of pass k stands in the log of the target.
TimesAppended(k) == CountLines(TargetLog(dst), <<"START", ToString(k)>>)

\* C36: every line put into the buffer of the log is appended to the log of
\* the target exactly once over the flushes of a run: never twice, also when
\* a flush that had appended the lines failed in the copy to the source root
\* and another flush followed, and once when a flush has emptied the buffer.
C36_AppendedOnce ==
    \A k \in 1..sync_count :
        /\ TimesAppended(k) <= 1
        /\ (PassOver /\ logs = <<>>) => TimesAppended(k) = 1

\* The pass is in its body, between its head and its save.
InBody == pc \in {"plan", "collect", "copy", "reap", "del_files", "reset", "finish"}

\* C37: a failure to read the ignore file tells on the pass it happens in
\* and on no other: in the body of a pass that started with the file there
\* and readable the rules in force are the rules of the file, also when the
\* file's modification time is what it was when the reading failed.
C37_ReadFailurePasses ==
    (InBody /\ IsFile(src0, IgnorePath)
       /\ faults \cap {<<"read", IgnorePath>>, <<"edit", IgnorePath>>} = {}) =>
        ignore_rules = RulesOfLines(src0[IgnorePath].content)

----------------------------------------------------------------------------
(* The task queue of src/py/tasker.py *)

\* The most tasks the task file holds in the runs of the model.
MaxTasks == 2

Cmds == {"c1", "c2"}

Statuses == {"pending", "running", "completed", "failed"}

\* The value of a key of the task file.  The tasks of the model have one
\* work directory.
Info(c, st) == [wd |-> "wd", cmd |-> c, status |-> st]

\* A dict of Python, and the JSON object it is saved as and loaded from, is
\* the sequence of its items in the order of insertion.
Item(k, v) == [key |-> k, info |-> v]

Keys(d) == [i \in 1..Len(d) |-> d[i].key]

\* str(k) in d
Has(d, k) == \E i \in 1..Len(d) : d[i].key = k

\* d[str(k)]
Get(d, k) == d[CHOOSE i \in 1..Len(d) : d[i].key = k].info

\* d[str(k)] = v: the value of a key of d changes where the key is, a new
\* key goes to the end.
SetItem(d, k, v) ==
    IF Has(d, k)
    THEN [i \in 1..Len(d) |-> IF d[i].key = k THEN Item(k, v) ELSE d[i]]
    ELSE Append(d, Item(k, v))

\* d.pop(str(k)), the dict it leaves
Pop(d, k) == SelectSeq(d, LAMBDA e : e.key # k)

\* Operator.check_valid_tasks: the keys as loaded are 1, 2, .., len(tasks).
check_valid_tasks(d) == Keys(d) = [i \in 1..Len(d) |-> i]

\* Operator.check_position
check_position(pos, max_pos) == pos >= 1 /\ pos <= max_pos

\* `if pos == -1: pos = self.n_tasks`
PosOf(d, pos) == IF pos = -1 THEN Len(d) ELSE pos

\* The positions a user types: -1, 0, the positions of the queue, and the
\* one after its end.
Positions(d) == (-1)..(Len(d) + 1)

\* for i in reversed(range(pos+1, n_tasks+2)): tasks[str(i)] = tasks[str(i-1)]
RECURSIVE ShiftUp(_, _, _)
ShiftUp(d, i, pos) ==
    IF i <= pos THEN d ELSE ShiftUp(SetItem(d, i, Get(d, i - 1)), i - 1, pos)

\* Operator.insert_task
insert_task(d, pos, task_info) ==
    IF ~check_position(pos, Len(d) + 1) THEN [ok |-> FALSE, tasks |-> d]
    ELSE [ok |-> TRUE,
          tasks |-> SetItem(ShiftUp(d, Len(d) + 1, pos), pos, task_info)]

\* for i in range(pos, n_tasks + 1): tasks[str(i)] = tasks.pop(str(i + 1))
RECURSIVE ShiftDown(_, _, _)
ShiftDown(d, i, n) ==
    IF i > n THEN d
    ELSE ShiftDown(SetItem(Pop(d, i + 1), i, Get(d, i + 1)), i + 1, n)

\* A remove_task that pops the key and shifts nothing.
remove_task_gap(d, pos) ==
    IF ~check_position(pos, Len(d)) THEN [ok |-> FALSE, tasks |-> d]
    ELSE [ok |-> TRUE, tasks |-> Pop(d, pos)]

\* Operator.remove_task
remove_task(d, pos) ==
    IF ~check_position(pos, Len(d)) THEN [ok |-> FALSE, tasks |-> d]
    ELSE [ok |-> TRUE, tasks |-> ShiftDown(Pop(d, pos), pos, Len(d) - 1)]

\* The operations of Operator, from the task file as loaded to the task
\* file as saved; the task file stays as it is where the operation logs an
\* error or is cancelled.

\* Operator.append
append(d, c) ==
    IF ~check_valid_tasks(d) THEN d
    ELSE insert_task(d, Len(d) + 1, Info(c, "pending")).tasks

\* Operator.insert
insert(d, pos, c) ==
    IF ~check_valid_tasks(d) THEN d
    ELSE insert_task(d, PosOf(d, pos), Info(c, "pending")).tasks

\* Operator.remove: rf is run_file.exists(), confirm the user's answer.
remove(d, pos, rf, confirm) ==
    LET q == PosOf(d, pos) IN
    IF ~check_valid_tasks(d) THEN d
    ELSE IF ~check_position(q, Len(d)) THEN d
    ELSE IF ~rf \/ Get(d, q).status # "running"
         THEN IF confirm THEN remove_task(d, q).tasks ELSE d
         ELSE d

\* Operator.move
move(d, pos, target_pos) ==
    LET a == PosOf(d, pos)
        b == PosOf(d, target_pos)
    IN  IF ~check_valid_tasks(d) THEN d
        ELSE IF a = b THEN d
        ELSE IF ~check_position(a, Len(d)) THEN d
        ELSE LET ins == insert_task(d, IF a < b THEN b + 1 ELSE b, Get(d, a)) IN
             IF ~ins.ok THEN d
             ELSE LET rem == remove_task(ins.tasks, IF a < b THEN a ELSE a + 1) IN
                  IF rem.ok THEN rem.tasks ELSE d

\* Operator.rerun
rerun(d, pos) ==
    LET q == PosOf(d, pos) IN
    IF ~check_valid_tasks(d) THEN d
    ELSE IF ~check_position(q, Len(d)) THEN d
    ELSE SetItem(d, q, [Get(d, q) EXCEPT !.status = "pending"])

\* Operator.swap
swap(d, pos1, pos2) ==
    LET a == PosOf(d, pos1)
        b == PosOf(d, pos2)
    IN  IF ~check_valid_tasks(d) THEN d
        ELSE IF a = b \/ ~check_position(a, Len(d)) \/ ~check_position(b, Len(d))
        THEN d
        ELSE SetItem(SetItem(d, a, Get(d, b)), b, Get(d, a))

\* for task_id in reversed(tasks_to_remove): self.remove_task(int(task_id))
RECURSIVE ClearFrom(_, _, _)
ClearFrom(d, ks, i) ==
    IF i = 0 THEN d ELSE ClearFrom(remove_task(d, ks[i]).tasks, ks, i - 1)

\* Operator.clear
clear(d, status, confirm) ==
    LET tasks_to_remove ==
            Keys(SelectSeq(d, LAMBDA e : e.info.status \in status))
    IN  IF ~check_valid_tasks(d) THEN d
        ELSE IF tasks_to_remove = <<>> \/ ~confirm THEN d
        ELSE ClearFrom(d, tasks_to_remove, Len(tasks_to_remove))

\* sorted(self.tasks.keys(), key=int)[i - 1]
SortedKey(d, i) ==
    CHOOSE k \in Range(Keys(d)) :
        Cardinality({ j \in Range(Keys(d)) : j <= k }) = i

\* Operator.fix
fix(d) ==
    IF check_valid_tasks(d) THEN d
    ELSE [i \in 1..Len(d) |-> Item(i, Get(d, SortedKey(d, i)))]

\* `task_id = len(tasks) + 1; while str(task_id) in tasks: task_id += 1`
RECURSIVE NewId(_, _)
NewId(d, k) == IF Has(d, k) THEN NewId(d, k + 1) ELSE k

\* Task.save: the first task of the file with the command, the work
\* directory and the required status takes the status of the Task; if there
\* is none, the Task is added under a new key.
Task_save(d, c, st, require) ==
    LET found == { i \in 1..Len(d) : d[i].info = Info(c, require) } IN
    IF found # {}
    THEN LET i == CHOOSE j \in found : \A k \in found : j <= k IN
         [d EXCEPT ![i] = Item(d[i].key, Info(c, st))]
    ELSE SetItem(d, NewId(d, Len(d) + 1), Info(c, st))

\* Tasker.load_1st_pending_task: the command of the pending task of the
\* least key, "none" if no task is pending.
load_1st_pending_task(d) ==
    LET pending == { i \in 1..Len(d) : d[i].info.status = "pending" } IN
    IF pending = {} THEN "none"
    ELSE d[CHOOSE i \in pending : \A j \in pending : d[i].key <= d[j].key].info.cmd

\* The synchronisation engine is not running: its variables hold nothing,
\* and no step of the task queue reads or writes them.
SyncIdle ==
    /\ engine = "none" /\ mode = "none" /\ delete = FALSE /\ time_factor = 1
    /\ max_workers = 1 /\ interval = 0 /\ faults = {}
    /\ source_root = <<>> /\ sync_root = <<>>
    /\ src = <<>> /\ dst = <<>> /\ disk = <<>>
    /\ now = 0
    /\ ignore_rules = <<>>
    /\ cache_ignore = <<>>
    /\ syncignore_mtime = 0
    /\ logs = <<>>
    /\ counter = ZeroCounter
    /\ sync_count = 0
    /\ pc = "idle"
    /\ todo = <<>>
    /\ inflight = {}
    /\ fallback = {}
    /\ dir_tasks = <<>>
    /\ src0 = <<>>
    /\ dst0 = <<>>
    /\ hist = <<>>
    /\ last = ZeroCounter

\* What the task queue leaves as it is.
Syncing == <<engine, mode, delete, time_factor, max_workers, faults, src, dst, now,
             ignore_rules, cache_ignore, syncignore_mtime, logs, counter,
             sync_count, pc, todo, inflight, fallback, dir_tasks, interval, src0,
             dst0, hist, last, disk, source_root, sync_root>>

\* The invocation is a runner that has created the run file and has not
\* reached the end of Operator.run.
ActiveRunner(q) == q.pc \in {"loop", "exec"} \/ q.fn \in {"load", "mark", "done"}

\* The invocation is between the lock() that succeeded and the unlock() of
\* the wrapper of synchronized.
InWrapper(q) == q.pc = "body"

\* `python tasker.py <id> run`, up to the test of the run file: with a run
\* file the invocation logs an error and ends, and nothing changes.
RunStart ==
    \E p \in Procs :
        /\ proc[p].pc = "idle"
        /\ ~run_file
        /\ proc' = [proc EXCEPT ![p] = [pc |-> "run_touch", fn |-> "none", cmd |-> "none"]]
        /\ UNCHANGED <<Syncing, tasker_file, lock_file, run_file>>

\* run_file.touch(exist_ok=False), the first statement of the try of
\* Operator.run: with a run file it raises FileExistsError, and the finally
\* clause removes the run file it finds.
RunTouch ==
    \E p \in Procs :
        /\ proc[p].pc = "run_touch"
        /\ IF run_file
           THEN run_file' = FALSE /\ proc' = [proc EXCEPT ![p] = Exited]
           ELSE /\ run_file' = TRUE
                /\ proc' = [proc EXCEPT ![p] = [pc |-> "loop", fn |-> "none", cmd |-> "none"]]
        /\ UNCHANGED <<Syncing, tasker_file, lock_file>>

\* The head of the loop of Operator.run: run_file.touch(exist_ok=True), then
\* Tasker.run calls load_1st_pending_task.
LoopHead ==
    \E p \in Procs :
        /\ proc[p].pc = "loop"
        /\ run_file' = TRUE
        /\ proc' = [proc EXCEPT ![p] = [pc |-> "enter", fn |-> "load", cmd |-> "none"]]
        /\ UNCHANGED <<Syncing, tasker_file, lock_file>>

\* The runner ends while it sleeps, in the loop of Operator.run or in the
\* wrapper of synchronized where it waits for the lock: the wait was too
\* long, or a KeyboardInterrupt. The finally clause removes the run file.
RunEnds ==
    \E p \in Procs :
        /\ proc[p].pc = "loop" \/ (proc[p].pc = "enter" /\ proc[p].fn # "op")
        /\ run_file' = FALSE
        /\ proc' = [proc EXCEPT ![p] = Exited]
        /\ UNCHANGED <<Syncing, tasker_file, lock_file>>

\* An invocation of a mode of the user (ls, la, add, in, rm, mv, rerun,
\* swap, clr, fix) reaches lock() and finds no lock file; with a lock file
\* it sleeps and tests again.
OpStart ==
    \E p \in Procs :
        /\ proc[p].pc = "idle"
        /\ ~lock_file
        /\ proc' = [proc EXCEPT ![p] = [pc |-> "lock", fn |-> "op", cmd |-> "none"]]
        /\ UNCHANGED <<Syncing, tasker_file, lock_file, run_file>>

\* lock() of a synchronized method of the runner finds no lock file.
LockCheck ==
    \E p \in Procs :
        /\ proc[p].pc = "enter"
        /\ ~lock_file
        /\ proc' = [proc EXCEPT ![p].pc = "lock"]
        /\ UNCHANGED <<Syncing, tasker_file, lock_file, run_file>>

\* lock_file.touch(exist_ok=False): with a lock file made since the test it
\* raises FileExistsError, which ends the invocation; that of a runner goes
\* through the finally clause of Operator.run.
LockTouch ==
    \E p \in Procs :
        /\ proc[p].pc = "lock"
        /\ IF lock_file
           THEN /\ proc' = [proc EXCEPT ![p] = Exited]
                /\ run_file' = IF proc[p].fn = "op" THEN run_file ELSE FALSE
                /\ UNCHANGED lock_file
           ELSE /\ lock_file' = TRUE
                /\ proc' = [proc EXCEPT ![p].pc = "body"]
                /\ UNCHANGED run_file
        /\ UNCHANGED <<Syncing, tasker_file>>

\* A synchronized method of Operator returns: the task file is saved as d,
\* the wrapper calls unlock(), the invocation ends.
OpReturns(p, d) ==
    /\ proc[p].pc = "body" /\ proc[p].fn = "op"
    /\ Len(d) <= MaxTasks
    /\ tasker_file' = d
    /\ lock_file' = FALSE
    /\ proc' = [proc EXCEPT ![p] = Exited]
    /\ UNCHANGED <<Syncing, run_file>>

OpList == \E p \in Procs : OpReturns(p, tasker_file)

OpAppend == \E p \in Procs, c \in Cmds : OpReturns(p, append(tasker_file, c))

OpInsert ==
    \E p \in Procs, c \in Cmds, pos \in Positions(tasker_file) :
        OpReturns(p, insert(tasker_file, pos, c))

OpRemove ==
    \E p \in Procs, pos \in Positions(tasker_file), confirm \in BOOLEAN :
        OpReturns(p, remove(tasker_file, pos, run_file, confirm))

OpMove ==
    \E p \in Procs, pos \in Positions(tasker_file), target_pos \in Positions(tasker_file) :
        OpReturns(p, move(tasker_file, pos, target_pos))

OpRerun ==
    \E p \in Procs, pos \in Positions(tasker_file) :
        OpReturns(p, rerun(tasker_file, pos))

OpSwap ==
    \E p \in Procs, pos1 \in Positions(tasker_file), pos2 \in Positions(tasker_file) :
        OpReturns(p, swap(tasker_file, pos1, pos2))

OpClear ==
    \E p \in Procs, status \in SUBSET {"pending", "completed", "failed"},
       confirm \in BOOLEAN :
        OpReturns(p, clear(tasker_file, status, confirm))

OpFix == \E p \in Procs : OpReturns(p, fix(tasker_file))

\* A synchronized method of Operator ends with what it does not catch: a
\* KeyboardInterrupt (its handlers are `except Exception`), or an exception
\* of the log lines outside its try. The wrapper has no finally: unlock()
\* is not called.
OpRaises ==
    \E p \in Procs :
        /\ proc[p].pc = "body" /\ proc[p].fn = "op"
        /\ proc' = [proc EXCEPT ![p] = Exited]
        /\ UNCHANGED <<Syncing, tasker_file, lock_file, run_file>>

\* Tasker.load_1st_pending_task under the lock, and what Tasker.run and
\* Operator.run do with its result: Task.run of the pending task, or the
\* next round of the loop of Operator.run.
LoadBody ==
    \E p \in Procs :
        /\ proc[p].pc = "body" /\ proc[p].fn = "load"
        /\ LET c == load_1st_pending_task(tasker_file) IN
           proc' = [proc EXCEPT ![p] =
                        IF c = "none"
                        THEN [pc |-> "loop", fn |-> "none", cmd |-> "none"]
                        ELSE [pc |-> "enter", fn |-> "mark", cmd |-> c]]
        /\ lock_file' = FALSE
        /\ UNCHANGED <<Syncing, tasker_file, run_file>>

\* Task.save under the lock: ok is FALSE where the copy or the writing of
\* the task file raises, which save logs.
Saved(p, st, require, ok) ==
    IF ok THEN Task_save(tasker_file, proc[p].cmd, st, require) ELSE tasker_file

\* The first save of Task.run, save(require="pending"): the status is
\* "failed" where the work directory does not exist, "running" otherwise,
\* and then the command runs.
MarkBody ==
    \E p \in Procs, st \in {"running", "failed"}, ok \in BOOLEAN :
        /\ proc[p].pc = "body" /\ proc[p].fn = "mark"
        /\ Len(Saved(p, st, "pending", ok)) <= MaxTasks
        /\ tasker_file' = Saved(p, st, "pending", ok)
        /\ lock_file' = FALSE
        /\ proc' = [proc EXCEPT ![p] =
                        IF st = "running"
                        THEN [pc |-> "exec", fn |-> "none", cmd |-> proc[p].cmd]
                        ELSE [pc |-> "enter", fn |-> "load", cmd |-> "none"]]
        /\ UNCHANGED <<Syncing, run_file>>

\* subprocess.run returns or raises: Task.run goes to its finally clause.
ExecEnds ==
    \E p \in Procs :
        /\ proc[p].pc = "exec"
        /\ proc' = [proc EXCEPT ![p] = [pc |-> "enter", fn |-> "done", cmd |-> proc[p].cmd]]
        /\ UNCHANGED <<Syncing, tasker_file, lock_file, run_file>>

\* The save of the finally clause of Task.run, save(require="running"), and
\* the next load_1st_pending_task of Tasker.run.
DoneBody ==
    \E p \in Procs, st \in {"completed", "failed"}, ok \in BOOLEAN :
        /\ proc[p].pc = "body" /\ proc[p].fn = "done"
        /\ Len(Saved(p, st, "running", ok)) <= MaxTasks
        /\ tasker_file' = Saved(p, st, "running", ok)
        /\ lock_file' = FALSE
        /\ proc' = [proc EXCEPT ![p] = [pc |-> "enter", fn |-> "load", cmd |-> "none"]]
        /\ UNCHANGED <<Syncing, run_file>>

InitTasker == SyncIdle /\ QueueIdle

NextTasker ==
    \/ RunStart
    \/ RunTouch
    \/ LoopHead
    \/ RunEnds
    \/ OpStart
    \/ LockCheck
    \/ LockTouch
    \/ OpList
    \/ OpAppend
    \/ OpInsert
    \/ OpRemove
    \/ OpMove
    \/ OpRerun
    \/ OpSwap
    \/ OpClear
    \/ OpFix
    \/ OpRaises
    \/ LoadBody
    \/ MarkBody
    \/ ExecEnds
    \/ DoneBody

SpecTasker == InitTasker /\ [][NextTasker]_vars

TypeOKTasker ==
    /\ lock_file \in BOOLEAN
    /\ run_file \in BOOLEAN
    /\ Len(tasker_file) <= MaxTasks
    /\ \A i \in 1..Len(tasker_file) :
           tasker_file[i].info \in { Info(c, st) : c \in Cmds, st \in Statuses }
    /\ \A p \in Procs :
           /\ proc[p].pc \in {"idle", "run_touch", "loop", "enter", "lock", "body", "exec"}
           /\ proc[p].fn \in {"none", "op", "load", "mark", "done"}
           /\ proc[p].cmd \in Cmds \cup {"none"}

----------------------------------------------------------------------------
(* The task queue: the lock file, the run file, the keys of the task file *)

\* C38: the lock file taken by a synchronized operation is removed when the
\* operation ends, whether it returns, raises or is interrupted: the lock
\* file exists only while an invocation is between the lock() and the
\* unlock() of the wrapper, so that no operation that has ended blocks a
\* later one.
C38_LockRemoved == lock_file => \E p \in Procs : InWrapper(proc[p])

\* C39: at most one runner is active for the tasker id, and while a runner
\* is active no other invocation of run removes the run file: a step after
\* which the run file is gone leaves no active runner.
C39_OneRunner ==
    [][ /\ Cardinality({ p \in Procs : ActiveRunner(proc'[p]) }) <= 1
        /\ (run_file /\ ~run_file') => \A p \in Procs : ~ActiveRunner(proc'[p]) ]_vars

\* C40: from the empty task file, after every operation of Operator and
\* every save of a runner, the keys of the task file are 1, 2, .., m in this
\* order, with no gap and no duplicate.
C40_KeysInOrder == \A i \in 1..Len(tasker_file) : tasker_file[i].key = i

\* Two tasks of different commands, the first pending and the second
\* completed, and no invocation running: a runner has saved the status of a
\* task and an operation of Operator has put a pending task before it.
C40_Witness ==
    /\ Len(tasker_file) = 2
    /\ tasker_file[1].info.status = "pending"
    /\ tasker_file[2].info.status = "completed"
    /\ tasker_file[1].info.cmd # tasker_file[2].info.cmd
    /\ \A p \in Procs : proc[p] = Exited

====
